---- MODULE Spec2Model ----
(***************************************************************************)
(* Background polling engine of the Alertmanager monitor extension:        *)
(* pollAlerts, checkForNewAlerts, updateBadge, setupAlarm and the chrome   *)
(* listeners of the service worker, the Storage wrapper (settings, caches, *)
(* known fingerprints) and the badge helpers of Utils.                     *)
(*                                                                         *)
(* A poll cycle is one invocation of pollAlerts.  Its steps are the code   *)
(* between two awaits; the outcome of every call to a collaborator (the    *)
(* Alertmanager API, chrome.storage, chrome.action, chrome.notifications)  *)
(* is chosen by the environment: a result, or a failure.                   *)
(***************************************************************************)
EXTENDS Integers, Sequences, FiniteSets, TLC

(***************************************************************************)
(* Bounds of the model.                                                    *)
(***************************************************************************)
\* fingerprints fp1..fpMaxFp the polled Alertmanager can report (Spec)
MaxFp == 2
\* longest alert list handed to the notification check (SpecNotify)
MaxAlerts == 7
\* longest alert list handed to the badge computation (SpecBadge)
MaxBadgeAlerts == 3
\* clock ticks that make up the timeout of one request (SpecFetch)
TimeoutTicks == 3
\* last value of Date.now() (SpecCache)
MaxClock == 1
\* instances the user can configure (SpecInstances)
MaxInstances == 4
\* poll cycles in the history of one alert (SpecSeen, SpecRefire)
MaxCycles == 3

(***************************************************************************)
(* Program constants.                                                      *)
(***************************************************************************)
NOTIFICATION_ID_PREFIX == "am-alert-"
\* newAlerts.slice(0, 5)
IndividualCap == 5
\* newAlerts.length > 5
BatchThreshold == 5
\* _fetch(url, headers, timeout = 10000); no caller passes a timeout
FETCH_TIMEOUT == 10000

COLOR_OK == "#4ade80"
COLOR_CRITICAL == "#dc2626"
COLOR_WARNING == "#d97706"
COLOR_INFO == "#2563eb"
COLOR_DEGRADED == "#6b7280"
COLOR_TEXT == "#FFFFFF"
\* a badge colour the extension has not set yet
Unset == "unset"

\* "no instance" (null) as an instance id
None == "none"

Instances == {"i1", "i2"}
States == {"active", "suppressed", "unprocessed"}
\* labels.severity; "none" stands for an alert without a severity label
Severities == {"critical", "warning", "info", "none"}

(***************************************************************************)
(* String(n) of JavaScript for a natural number: its decimal digits.       *)
(***************************************************************************)
Digit(d) ==
  CASE d = 0 -> "0" [] d = 1 -> "1" [] d = 2 -> "2" [] d = 3 -> "3"
    [] d = 4 -> "4" [] d = 5 -> "5" [] d = 6 -> "6" [] d = 7 -> "7"
    [] d = 8 -> "8" [] d = 9 -> "9"

RECURSIVE String(_)
String(n) == IF n < 10 THEN Digit(n) ELSE String(n \div 10) \o Digit(n % 10)

(***************************************************************************)
(* Alerts.  The fingerprint is the hash of the label set, so the severity  *)
(* label is fixed by the fingerprint; the state changes between fetches.   *)
(***************************************************************************)
Fp(i) == "fp" \o String(i)

SeverityOf(i) ==
  CASE i % 4 = 1 -> "critical" [] i % 4 = 2 -> "warning"
    [] i % 4 = 3 -> "info" [] OTHER -> "none"

Alert(i, st) == [fingerprint |-> Fp(i), state |-> st, severity |-> SeverityOf(i)]

\* array helpers (Array.prototype.filter is SelectSeq: it keeps the order)
Includes(s, x) == \E k \in 1..Len(s) : s[k] = x

Slice(s, n) == SubSeq(s, 1, IF Len(s) < n THEN Len(s) ELSE n)

(***************************************************************************)
(* Utils.countActiveAlerts, Utils.getBadgeColor and the badge that         *)
(* updateBadge leaves.                                                     *)
(***************************************************************************)
IsActive(a) == a.state = "active"

\* mutant: every alert counts
countAllAlerts(alerts) == Len(alerts)

countActiveAlerts(alerts) == Len(SelectSeq(alerts, IsActive))

\* mutant: warning is looked at before critical
getBadgeColorWarningFirst(alerts) ==
  IF Len(alerts) = 0 THEN COLOR_OK
  ELSE LET hasCritical == \E k \in 1..Len(alerts) :
                             alerts[k].severity = "critical" /\ alerts[k].state = "active"
           hasWarning == \E k \in 1..Len(alerts) :
                             alerts[k].severity = "warning" /\ alerts[k].state = "active"
       IN IF hasWarning THEN COLOR_WARNING
          ELSE IF hasCritical THEN COLOR_CRITICAL
          ELSE COLOR_INFO

getBadgeColor(alerts) ==
  IF Len(alerts) = 0 THEN COLOR_OK
  ELSE LET hasCritical == \E k \in 1..Len(alerts) :
                             alerts[k].severity = "critical" /\ alerts[k].state = "active"
           hasWarning == \E k \in 1..Len(alerts) :
                             alerts[k].severity = "warning" /\ alerts[k].state = "active"
       IN IF hasCritical THEN COLOR_CRITICAL
          ELSE IF hasWarning THEN COLOR_WARNING
          ELSE COLOR_INFO

\* mutant: no active alert shows as '!'
BadgeTextBang(alerts) ==
  IF countActiveAlerts(alerts) > 0 THEN String(countActiveAlerts(alerts)) ELSE "!"

BadgeText(alerts) ==
  LET activeCount == countActiveAlerts(alerts)
  IN IF activeCount > 0 THEN String(activeCount) ELSE ""

\* the badge after a complete updateBadge(alerts, enabled) on badge b
updateBadge(b, alerts, enabled) ==
  IF ~enabled THEN [b EXCEPT !.text = ""]
  ELSE [text |-> BadgeText(alerts), color |-> getBadgeColor(alerts), textColor |-> COLOR_TEXT]

\* the badge of the fetch-failure branch of pollAlerts
DegradedBadge == [text |-> "!", color |-> COLOR_DEGRADED, textColor |-> COLOR_TEXT]

(***************************************************************************)
(* checkForNewAlerts: the decision part.                                   *)
(***************************************************************************)
\* mutant: only the active alerts' fingerprints
currentFingerprintsActive(alerts) ==
  LET active == SelectSeq(alerts, IsActive)
  IN [k \in 1..Len(active) |-> active[k].fingerprint]

currentFingerprints(alerts) == [k \in 1..Len(alerts) |-> alerts[k].fingerprint]

\* mutant: an alert of any state is new when its fingerprint is not known
newAlertsAnyState(alerts, knownFingerprints) ==
  LET IsNew(a) == ~Includes(knownFingerprints, a.fingerprint)
  IN SelectSeq(alerts, IsNew)

\* mutant: every active alert is new
newAlertsAllActive(alerts, knownFingerprints) == SelectSeq(alerts, IsActive)

newAlerts(alerts, knownFingerprints) ==
  LET IsNew(a) == a.state = "active" /\ ~Includes(knownFingerprints, a.fingerprint)
  IN SelectSeq(alerts, IsNew)

\* (alert.labels?.severity || 'unknown').toUpperCase()
SeverityTitle(sev) ==
  CASE sev = "critical" -> "CRITICAL" [] sev = "warning" -> "WARNING"
    [] sev = "info" -> "INFO" [] OTHER -> "UNKNOWN"

\* mutant: the id is built from the severity
IndividualBySeverity(a) ==
  [id |-> NOTIFICATION_ID_PREFIX \o a.severity,
   title |-> "[" \o SeverityTitle(a.severity) \o "] Alert",
   message |-> "New alert fired",
   priority |-> IF a.severity = "critical" THEN 2 ELSE 1]

\* the alerts of the model carry no alertname label and no summary annotation
Individual(a) ==
  [id |-> NOTIFICATION_ID_PREFIX \o a.fingerprint,
   title |-> "[" \o SeverityTitle(a.severity) \o "] Alert",
   message |-> "New alert fired",
   priority |-> IF a.severity = "critical" THEN 2 ELSE 1]

Batch(n) ==
  [id |-> NOTIFICATION_ID_PREFIX \o "batch",
   title |-> "Alertmanager Monitor",
   message |-> String(n) \o " new alerts detected",
   priority |-> 1]

\* mutant: no cold-start guard
NotificationsNoGuard(alerts, knownFingerprints) ==
  LET new == newAlerts(alerts, knownFingerprints)
      first == Slice(new, IndividualCap)
  IN IF Len(new) > 0
     THEN [k \in 1..Len(first) |-> Individual(first[k])]
          \o (IF Len(new) > BatchThreshold THEN <<Batch(Len(new))>> ELSE <<>>)
     ELSE <<>>

\* mutant: the batch summary starts at the cap instead of above it
NotificationsBatchAtCap(alerts, knownFingerprints) ==
  LET new == newAlerts(alerts, knownFingerprints)
      first == Slice(new, IndividualCap)
  IN IF Len(new) > 0 /\ Len(knownFingerprints) > 0
     THEN [k \in 1..Len(first) |-> Individual(first[k])]
          \o (IF Len(new) >= BatchThreshold THEN <<Batch(Len(new))>> ELSE <<>>)
     ELSE <<>>

\* mutant: the new alerts are sorted, critical ones first, before the slice
NotificationsCriticalFirst(alerts, knownFingerprints) ==
  LET IsCritical(a) == a.severity = "critical"
      IsOther(a) == a.severity # "critical"
      unsorted == newAlerts(alerts, knownFingerprints)
      new == SelectSeq(unsorted, IsCritical) \o SelectSeq(unsorted, IsOther)
      first == Slice(new, IndividualCap)
  IN IF Len(new) > 0 /\ Len(knownFingerprints) > 0
     THEN [k \in 1..Len(first) |-> Individual(first[k])]
          \o (IF Len(new) > BatchThreshold THEN <<Batch(Len(new))>> ELSE <<>>)
     ELSE <<>>

\* the chrome.notifications.create calls of one notification check, in order
Notifications(alerts, knownFingerprints) ==
  LET new == newAlerts(alerts, knownFingerprints)
      first == Slice(new, IndividualCap)
  IN IF Len(new) > 0 /\ Len(knownFingerprints) > 0
     THEN [k \in 1..Len(first) |-> Individual(first[k])]
          \o (IF Len(new) > BatchThreshold THEN <<Batch(Len(new))>> ELSE <<>>)
     ELSE <<>>

(***************************************************************************)
(* What the collaborators can return.                                      *)
(***************************************************************************)
\* the alert lists over fp1..fpn in fingerprint order, each alert in a state of sts
RECURSIVE AlertLists(_, _)
AlertLists(n, sts) ==
  IF n = 0 THEN {<<>>}
  ELSE LET shorter == AlertLists(n - 1, sts)
       IN shorter \cup {Append(l, Alert(n, st)) : l \in shorter, st \in sts}

\* results of AlertmanagerAPI.getAlerts in Spec: firing and silenced alerts
FetchResults == AlertLists(MaxFp, {"active", "suppressed"})

\* results of AlertmanagerAPI.getSilences
SilenceResults == {<<>>, <<"s1">>}

\* Spec: the user configures one Alertmanager, and a poll cycle starts when the
\* previous one has returned
Configured == {"i1"}
Polling == {"alarm"}

\* the pollAlerts invocations that can be in flight: the alarm's and one
\* started by another entry point (install, startup, settings change, pollNow)
Cycles == {"alarm", "pollNow"}

(***************************************************************************)
(* The scheduler: setupAlarm and the alarm it keeps.                       *)
(***************************************************************************)
ALARM_NAME == "alertmanager-poll"

\* DEFAULT_SETTINGS.pollInterval, in seconds
DEFAULT_POLL_INTERVAL == 30

\* the pollInterval values the options page saves: clamped to 10..300
MinPollInterval == 10
MaxPollInterval == 300

\* SpecScheduler: an interval below the floor, the default, one above it
PollIntervals == {MinPollInterval, DEFAULT_POLL_INTERVAL, 60}

\* minutes are fractions: num / den
Rat(n, d) == [num |-> n, den |-> d]

RatLeq(a, b) == a.num * b.den <= b.num * a.den

RatEq(a, b) == a.num * b.den = b.num * a.den

\* Math.max
RatMax(a, b) == IF RatLeq(a, b) THEN b ELSE a

\* mutant: the period is the configured interval, without the floor
intervalMinutesNoFloor(interval) == Rat(interval, 60)

\* Math.max(settings.pollInterval / 60, 0.5)
intervalMinutes(interval) == RatMax(Rat(interval, 60), Rat(1, 2))

\* chrome.alarms.clear(name)
alarmsClear(al, name) ==
  LET Other(a) == a.name # name
  IN SelectSeq(al, Other)

\* mutant: create adds an alarm and keeps the ones of the same name
alarmsCreateKeeps(al, name, info) ==
  Append(al, [name |-> name, delayInMinutes |-> info.delayInMinutes,
              periodInMinutes |-> info.periodInMinutes])

\* chrome.alarms.create(name, info): an alarm of the same name is replaced
alarmsCreate(al, name, info) ==
  Append(alarmsClear(al, name),
         [name |-> name, delayInMinutes |-> info.delayInMinutes,
          periodInMinutes |-> info.periodInMinutes])

\* the setupAlarm invocations that can be in flight
Setups == {"a", "b"}

NoSetup == [pc |-> "idle", pollInterval |-> 0, intervalMinutes |-> Rat(0, 1)]

NoEvent == [kind |-> "none"]

(***************************************************************************)
(* State.                                                                  *)
(***************************************************************************)
VARIABLES
  instances,            \* settings.instances: the ids, in list order
  activeInstanceId,     \* settings.activeInstanceId, None for null
  enableNotifications,  \* settings.enableNotifications
  enableBadge,          \* settings.enableBadge
  fingerprints,         \* chrome.storage.local fingerprints_<id>: <<>> absent, <<list>> stored
  alertsCache,          \* chrome.storage.local alerts_<id>: <<>> absent, <<entry>> stored
  silencesCache,        \* chrome.storage.local silences_<id>
  badge,                \* the action badge: text, background colour, text colour
  pc,                   \* where each pollAlerts invocation stands
  instance,             \* its const instance
  settings,             \* its settings object
  alerts,               \* its fetched alerts
  knownFingerprints,    \* its knownFingerprints
  created,              \* the notifications it has created, in order
  trace,                \* the collaborator calls it has completed, in order
  ticks,                \* pollAlerts invocations started so far (counted in SpecScenario)
  pollInterval,         \* settings.pollInterval, in seconds
  alarms,               \* the alarms chrome.alarms holds
  setup,                \* where each setupAlarm invocation stands, and its locals
  event,                \* the event last delivered to the listeners; seq flips at each
  req,                  \* the AlertmanagerAPI._fetch call in flight
  now,                  \* Date.now()
  popup                 \* fetchData of the popup: its position and its pending cache write

store == <<fingerprints, alertsCache, silencesCache>>
config == <<instances, activeInstanceId, enableNotifications, enableBadge>>
locals == <<instance, settings, alerts, knownFingerprints, created>>
scheduler == <<pollInterval, alarms, setup, event>>
periphery == <<req, now, popup>>
vars == <<instances, activeInstanceId, enableNotifications, enableBadge, fingerprints,
          alertsCache, silencesCache, badge, pc, instance, settings, alerts,
          knownFingerprints, created, trace, ticks, pollInterval, alarms, setup, event,
          req, now, popup>>

NoSettings == [enableBadge |-> FALSE, enableNotifications |-> FALSE]

\* no _fetch call made yet
NoRequest ==
  [pc |-> "idle", kind |-> "none", timer |-> "none", aborted |-> FALSE,
   elapsed |-> 0, cleared |-> FALSE,
   outcome |-> [status |-> "none", value |-> <<>>, message |-> ""]]

\* the popup is closed
NoPopup ==
  [pc |-> "closed", instance |-> None, alerts |-> <<>>, silences |-> <<>>,
   timestamp |-> 0, cached |-> <<>>, cachedSilences |-> <<>>]

\* no request in flight, the clock at its start, the popup closed
PeripheryIdle ==
  /\ req = NoRequest
  /\ now = 0
  /\ popup = NoPopup

\* the scheduler before the first event: DEFAULT_SETTINGS.pollInterval, no alarm
NotArmed ==
  /\ pollInterval = DEFAULT_POLL_INTERVAL
  /\ alarms = <<>>
  /\ setup = [s \in Setups |-> NoSetup]
  /\ event = [seq |-> 0, e |-> NoEvent]

\* the scheduler after the setupAlarm of the install event has returned
Armed ==
  /\ pollInterval = DEFAULT_POLL_INTERVAL
  /\ alarms = alarmsCreate(<<>>, ALARM_NAME,
                           [delayInMinutes |-> Rat(1, 10),
                            periodInMinutes |-> intervalMinutes(DEFAULT_POLL_INTERVAL)])
  /\ setup = [s \in Setups |-> NoSetup]
  /\ event = [seq |-> 1, e |-> [kind |-> "onInstalled"]]

\* DEFAULT_SETTINGS, an empty local storage area and a badge never written
Init ==
  /\ instances = <<>>
  /\ activeInstanceId = None
  /\ enableNotifications = TRUE
  /\ enableBadge = TRUE
  /\ fingerprints = [i \in Instances |-> <<>>]
  /\ alertsCache = [i \in Instances |-> <<>>]
  /\ silencesCache = [i \in Instances |-> <<>>]
  /\ badge = [text |-> "", color |-> Unset, textColor |-> Unset]
  /\ pc = [c \in Cycles |-> "idle"]
  /\ instance = [c \in Cycles |-> None]
  /\ settings = [c \in Cycles |-> NoSettings]
  /\ alerts = [c \in Cycles |-> <<>>]
  /\ knownFingerprints = [c \in Cycles |-> <<>>]
  /\ created = [c \in Cycles |-> <<>>]
  /\ trace = [c \in Cycles |-> <<>>]
  /\ ticks = 0
  /\ NotArmed
  /\ PeripheryIdle

(***************************************************************************)
(* The Storage wrapper.                                                    *)
(***************************************************************************)
\* Storage.getActiveInstance
getActiveInstance ==
  IF activeInstanceId = None THEN None
  ELSE IF Includes(instances, activeInstanceId) THEN activeInstanceId ELSE None

\* Storage.getKnownFingerprints: data[key] || []
getKnownFingerprints(id) ==
  IF fingerprints[id] = <<>> THEN <<>> ELSE fingerprints[id][1]

\* mutant: the new fingerprints are added to the stored ones
setKnownFingerprintsUnion(id, fps) ==
  [fingerprints EXCEPT ![id] = <<getKnownFingerprints(id) \o fps>>]

\* Storage.setKnownFingerprints
setKnownFingerprints(id, fps) == [fingerprints EXCEPT ![id] = <<fps>>]

\* Storage.cacheAlerts, Storage.cacheSilences
\* the entry a put writes for every instance
cacheAlertsClobbers(id, payload) ==
  [i \in Instances |-> <<[alerts |-> payload, timestamp |-> now]>>]

cacheAlerts(id, payload) ==
  [alertsCache EXCEPT ![id] = <<[alerts |-> payload, timestamp |-> now]>>]

\* null
Null == [null |-> TRUE]

\* Storage.getCachedAlerts: data[key] || null
getCachedAlerts(id) == IF alertsCache[id] = <<>> THEN Null ELSE alertsCache[id][1]

\* Storage.getCachedSilences: data[key] || null
getCachedSilences(id) ==
  IF silencesCache[id] = <<>> THEN Null ELSE silencesCache[id][1]

cacheSilences(id, payload) ==
  [silencesCache EXCEPT ![id] = <<[silences |-> payload, timestamp |-> now]>>]

\* Storage.addInstance, from the options page
addInstance(i) ==
  /\ ~Includes(instances, i)
  /\ instances' = Append(instances, i)
  /\ activeInstanceId' = IF activeInstanceId = None THEN i ELSE activeInstanceId
  /\ UNCHANGED <<ticks, periphery, scheduler, enableNotifications, enableBadge, store, badge, pc, locals, trace>>

\* mutant: the active id is left as it is
removeInstanceKeepsActive(i) ==
  LET IsOther(j) == j # i
      rest == SelectSeq(instances, IsOther)
  IN /\ Includes(instances, i)
     /\ instances' = rest
     /\ UNCHANGED <<ticks, periphery, scheduler, activeInstanceId, enableNotifications, enableBadge, store, badge, pc, locals, trace>>

\* Storage.removeInstance, from the options page
removeInstance(i) ==
  LET IsOther(j) == j # i
      rest == SelectSeq(instances, IsOther)
  IN /\ Includes(instances, i)
     /\ instances' = rest
     /\ activeInstanceId' =
          IF activeInstanceId = i
          THEN (IF rest = <<>> THEN None ELSE rest[1])
          ELSE activeInstanceId
     /\ UNCHANGED <<ticks, periphery, scheduler, enableNotifications, enableBadge, store, badge, pc, locals, trace>>

\* Storage.setActiveInstance, from the options page and the popup's selector
setActiveInstance(i) ==
  /\ Includes(instances, i)
  /\ activeInstanceId # i
  /\ activeInstanceId' = i
  /\ UNCHANGED <<ticks, periphery, scheduler, instances, enableNotifications, enableBadge, store, badge, pc, locals, trace>>

\* saveSettings of the options page: the two enablement flags
saveSettings(b, n) ==
  /\ <<b, n>> # <<enableBadge, enableNotifications>>
  /\ enableBadge' = b
  /\ enableNotifications' = n
  /\ UNCHANGED <<ticks, periphery, scheduler, instances, activeInstanceId, store, badge, pc, locals, trace>>

(***************************************************************************)
(* pollAlerts, one action per await and outcome.  trace logs the calls to  *)
(* the collaborators, a failed call as "<call>:failed".                    *)
(***************************************************************************)
Did(c, calls) == trace' = [trace EXCEPT ![c] = @ \o calls]

Goto(c, where) == pc' = [pc EXCEPT ![c] = where]

\* pollAlerts returns: its instance, settings, alerts and knownFingerprints are gone
Return(c) ==
  /\ pc' = [pc EXCEPT ![c] = "done"]
  /\ instance' = [instance EXCEPT ![c] = None]
  /\ settings' = [settings EXCEPT ![c] = NoSettings]
  /\ alerts' = [alerts EXCEPT ![c] = <<>>]
  /\ knownFingerprints' = [knownFingerprints EXCEPT ![c] = <<>>]
  /\ UNCHANGED created

\* an await outside every try block throws: the promise of pollAlerts rejects
Reject(c) ==
  /\ pc' = [pc EXCEPT ![c] = "rejected"]
  /\ instance' = [instance EXCEPT ![c] = None]
  /\ settings' = [settings EXCEPT ![c] = NoSettings]
  /\ alerts' = [alerts EXCEPT ![c] = <<>>]
  /\ knownFingerprints' = [knownFingerprints EXCEPT ![c] = <<>>]
  /\ UNCHANGED created

\* an entry point calls pollAlerts()
Start(c) ==
  /\ pc[c] \in {"idle", "done", "rejected"}
  /\ Goto(c, "resolve")
  /\ instance' = [instance EXCEPT ![c] = None]
  /\ settings' = [settings EXCEPT ![c] = NoSettings]
  /\ alerts' = [alerts EXCEPT ![c] = <<>>]
  /\ knownFingerprints' = [knownFingerprints EXCEPT ![c] = <<>>]
  /\ created' = [created EXCEPT ![c] = <<>>]
  /\ trace' = [trace EXCEPT ![c] = <<>>]
  /\ UNCHANGED <<config, store, badge>>

\* stage 1, an active instance
ResolveInstance(c) ==
  /\ pc[c] = "resolve"
  /\ getActiveInstance # None
  /\ instance' = [instance EXCEPT ![c] = getActiveInstance]
  /\ Did(c, <<"getActiveInstance">>)
  /\ Goto(c, "settings")
  /\ UNCHANGED <<ticks, periphery, scheduler, config, store, badge, settings, alerts, knownFingerprints, created>>

\* mutant: no active instance shows the degraded badge
NoActiveInstanceDegraded(c) ==
  /\ pc[c] = "resolve"
  /\ getActiveInstance = None
  /\ badge' = DegradedBadge
  /\ Did(c, <<"getActiveInstance", "setBadgeText">>)
  /\ Return(c)
  /\ UNCHANGED <<ticks, periphery, scheduler, config, store>>

\* stage 1, no active instance: clear the badge text and return
NoActiveInstance(c) ==
  /\ pc[c] = "resolve"
  /\ getActiveInstance = None
  /\ badge' = [badge EXCEPT !.text = ""]
  /\ Did(c, <<"getActiveInstance", "setBadgeText">>)
  /\ Return(c)
  /\ UNCHANGED <<ticks, periphery, scheduler, config, store>>

\* stage 1: Storage.getActiveInstance throws, outside every try block
ResolveInstanceFail(c) ==
  /\ pc[c] = "resolve"
  /\ Did(c, <<"getActiveInstance:failed">>)
  /\ Reject(c)
  /\ UNCHANGED <<ticks, periphery, scheduler, config, store, badge>>

\* stage 1, no active instance: chrome.action.setBadgeText throws, outside
\* every try block
NoActiveInstanceBadgeFail(c) ==
  /\ pc[c] = "resolve"
  /\ getActiveInstance = None
  /\ Did(c, <<"getActiveInstance", "setBadgeText:failed">>)
  /\ Reject(c)
  /\ UNCHANGED <<ticks, periphery, scheduler, config, store, badge>>

\* stage 2
LoadSettings(c) ==
  /\ pc[c] = "settings"
  /\ settings' = [settings EXCEPT ![c] =
                    [enableBadge |-> enableBadge, enableNotifications |-> enableNotifications]]
  /\ Did(c, <<"getSettings">>)
  /\ Goto(c, "fetch")
  /\ UNCHANGED <<ticks, periphery, scheduler, config, store, badge, instance, alerts, knownFingerprints, created>>

\* mutant: a settings failure shows the degraded badge
LoadSettingsFailDegraded(c) ==
  /\ pc[c] = "settings"
  /\ badge' = DegradedBadge
  /\ Did(c, <<"getSettings:failed">>)
  /\ Return(c)
  /\ UNCHANGED <<ticks, periphery, scheduler, config, store>>

\* stage 2: Storage.getSettings throws
LoadSettingsFail(c) ==
  /\ pc[c] = "settings"
  /\ Did(c, <<"getSettings:failed">>)
  /\ Return(c)
  /\ UNCHANGED <<ticks, periphery, scheduler, config, store, badge>>

\* stage 3: AlertmanagerAPI.getAlerts returns r
FetchAlerts(c, r) ==
  /\ pc[c] = "fetch"
  /\ alerts' = [alerts EXCEPT ![c] = r]
  /\ Did(c, <<"getAlerts">>)
  /\ Goto(c, "cache")
  /\ UNCHANGED <<ticks, periphery, scheduler, config, store, badge, instance, settings, knownFingerprints, created>>

\* stage 3: Storage.cacheAlerts
\* mutant: the silences are fetched right after the alerts are cached
CacheAlertsThenSilences(c) ==
  /\ pc[c] = "cache"
  /\ alertsCache' = cacheAlerts(instance[c], alerts[c])
  /\ Did(c, <<"cacheAlerts">>)
  /\ Goto(c, "silences")
  /\ UNCHANGED <<ticks, periphery, scheduler, config, fingerprints, silencesCache, badge, locals>>

CacheAlerts(c) ==
  /\ pc[c] = "cache"
  /\ alertsCache' = cacheAlerts(instance[c], alerts[c])
  /\ Did(c, <<"cacheAlerts">>)
  /\ Goto(c, "badge")
  /\ UNCHANGED <<ticks, periphery, scheduler, config, fingerprints, silencesCache, badge, locals>>

\* mutant: a failed fetch drops the cached alerts
FetchAlertsFailClears(c) ==
  /\ pc[c] = "fetch"
  /\ badge' = DegradedBadge
  /\ alertsCache' = [alertsCache EXCEPT ![instance[c]] = <<>>]
  /\ Did(c, <<"getAlerts:failed", "setBadgeText", "setBadgeBackgroundColor",
              "setBadgeTextColor">>)
  /\ Return(c)
  /\ UNCHANGED <<ticks, periphery, scheduler, config, fingerprints, silencesCache>>

\* mutant: after a failed fetch the cycle goes on to the silences
FetchAlertsFailContinues(c) ==
  /\ pc[c] = "fetch"
  /\ badge' = DegradedBadge
  /\ Did(c, <<"getAlerts:failed", "setBadgeText", "setBadgeBackgroundColor",
              "setBadgeTextColor">>)
  /\ Goto(c, "silences")
  /\ UNCHANGED <<ticks, periphery, scheduler, config, store, locals>>

\* stage 3: getAlerts throws (timeout, HTTP error): the catch block
\* mutant: a failed alerts fetch is tried once more
FetchAlertsFailRetriesOnce(c) ==
  /\ pc[c] = "fetch"
  /\ IF \E k \in 1..Len(trace[c]) : trace[c][k] = "getAlerts:failed"
     THEN /\ badge' = DegradedBadge
          /\ Did(c, <<"setBadgeText", "setBadgeBackgroundColor", "setBadgeTextColor">>)
          /\ Return(c)
     ELSE /\ Did(c, <<"getAlerts:failed">>)
          /\ UNCHANGED <<badge, pc, instance, settings, alerts, knownFingerprints,
                         created>>
  /\ UNCHANGED <<ticks, periphery, scheduler, config, store>>

FetchAlertsFail(c) ==
  /\ pc[c] = "fetch"
  /\ badge' = DegradedBadge
  /\ Did(c, <<"getAlerts:failed", "setBadgeText", "setBadgeBackgroundColor",
              "setBadgeTextColor">>)
  /\ Return(c)
  /\ UNCHANGED <<ticks, periphery, scheduler, config, store>>

\* mutant: a failed cache write is reported on the badge and the cycle goes on
CacheAlertsFailContinues(c) ==
  /\ pc[c] = "cache"
  /\ badge' = DegradedBadge
  /\ Did(c, <<"cacheAlerts:failed", "setBadgeText", "setBadgeBackgroundColor",
              "setBadgeTextColor">>)
  /\ Goto(c, "badge")
  /\ UNCHANGED <<ticks, periphery, scheduler, config, store, locals>>

\* stage 3: cacheAlerts throws: the same catch block
CacheAlertsFail(c) ==
  /\ pc[c] = "cache"
  /\ badge' = DegradedBadge
  /\ Did(c, <<"cacheAlerts:failed", "setBadgeText", "setBadgeBackgroundColor",
              "setBadgeTextColor">>)
  /\ Return(c)
  /\ UNCHANGED <<ticks, periphery, scheduler, config, store>>

\* stage 3: a badge write of the catch block throws after n of the three went
\* through; nothing catches it
DegradedBadgeFail(c, n) ==
  /\ pc[c] \in {"fetch", "cache"}
  /\ n \in 0..2
  /\ badge' = [text |-> IF n >= 1 THEN "!" ELSE badge.text,
               color |-> IF n >= 2 THEN COLOR_DEGRADED ELSE badge.color,
               textColor |-> badge.textColor]
  /\ Did(c, <<IF pc[c] = "fetch" THEN "getAlerts:failed" ELSE "cacheAlerts:failed">>
            \o SubSeq(<<"setBadgeText", "setBadgeBackgroundColor">>, 1, n)
            \o <<<<"setBadgeText:failed", "setBadgeBackgroundColor:failed",
                   "setBadgeTextColor:failed">>[n + 1]>>)
  /\ Reject(c)
  /\ UNCHANGED <<ticks, periphery, scheduler, config, store>>

\* if (settings.enableNotifications)
\* mutant: the notification check runs whatever the settings say
AfterBadgeAlwaysChecks(c) == "known"

AfterBadge(c) == IF settings[c].enableNotifications THEN "known" ELSE "silences"

\* stage 4
UpdateBadge(c) ==
  /\ pc[c] = "badge"
  /\ badge' = updateBadge(badge, alerts[c], settings[c].enableBadge)
  /\ Did(c, IF settings[c].enableBadge
            THEN <<"setBadgeText", "setBadgeBackgroundColor", "setBadgeTextColor">>
            ELSE <<"setBadgeText">>)
  /\ Goto(c, AfterBadge(c))
  /\ UNCHANGED <<ticks, periphery, scheduler, config, store, locals>>

\* stage 4 under overlapping cycles, one action per await of updateBadge:
\* await chrome.action.setBadgeText
BadgeSetText(c) ==
  /\ pc[c] = "badge"
  /\ badge' = [badge EXCEPT !.text = IF settings[c].enableBadge
                                     THEN BadgeText(alerts[c]) ELSE ""]
  /\ Did(c, <<"setBadgeText">>)
  /\ Goto(c, IF settings[c].enableBadge THEN "badgeColor" ELSE AfterBadge(c))
  /\ UNCHANGED <<ticks, periphery, scheduler, config, store, locals>>

\* await chrome.action.setBadgeBackgroundColor
BadgeSetColor(c) ==
  /\ pc[c] = "badgeColor"
  /\ badge' = [badge EXCEPT !.color = getBadgeColor(alerts[c])]
  /\ Did(c, <<"setBadgeBackgroundColor">>)
  /\ Goto(c, "badgeTextColor")
  /\ UNCHANGED <<ticks, periphery, scheduler, config, store, locals>>

\* await chrome.action.setBadgeTextColor
BadgeSetTextColor(c) ==
  /\ pc[c] = "badgeTextColor"
  /\ badge' = [badge EXCEPT !.textColor = COLOR_TEXT]
  /\ Did(c, <<"setBadgeTextColor">>)
  /\ Goto(c, AfterBadge(c))
  /\ UNCHANGED <<ticks, periphery, scheduler, config, store, locals>>

\* stage 4: chrome.action.setBadgeText throws, or with the badge enabled
\* setBadgeBackgroundColor throws after the text was set
UpdateBadgeFail(c) ==
  /\ pc[c] = "badge"
  /\ \/ /\ UNCHANGED badge
        /\ Did(c, <<"setBadgeText:failed">>)
     \/ /\ settings[c].enableBadge
        /\ badge' = [badge EXCEPT !.text = BadgeText(alerts[c])]
        /\ Did(c, <<"setBadgeText", "setBadgeBackgroundColor:failed">>)
  /\ Goto(c, AfterBadge(c))
  /\ UNCHANGED <<ticks, periphery, scheduler, config, store, locals>>

\* stage 5, checkForNewAlerts: Storage.getKnownFingerprints
GetKnown(c) ==
  /\ pc[c] = "known"
  /\ knownFingerprints' = [knownFingerprints EXCEPT ![c] = getKnownFingerprints(instance[c])]
  /\ Did(c, <<"getKnownFingerprints">>)
  /\ Goto(c, "notify")
  /\ UNCHANGED <<ticks, periphery, scheduler, config, store, badge, instance, settings, alerts, created>>

GetKnownFail(c) ==
  /\ pc[c] = "known"
  /\ Did(c, <<"getKnownFingerprints:failed">>)
  /\ Goto(c, "silences")
  /\ UNCHANGED <<ticks, periphery, scheduler, config, store, badge, locals>>

\* mutant: the fingerprints are written for the instance active at that moment
NotifyActiveInstance(c) ==
  /\ pc[c] = "notify"
  /\ created' = [created EXCEPT ![c] = Notifications(alerts[c], knownFingerprints[c])]
  /\ fingerprints' = setKnownFingerprints(IF getActiveInstance = None THEN instance[c]
                                           ELSE getActiveInstance,
                                          currentFingerprints(alerts[c]))
  /\ Did(c, <<"setKnownFingerprints">>)
  /\ Goto(c, "silences")
  /\ UNCHANGED <<ticks, periphery, scheduler, config, alertsCache, silencesCache, badge, instance, settings, alerts,
                 knownFingerprints>>

\* mutant: the fingerprints of the announced alerts are added to the stored ones
NotifyStoresAnnounced(c) ==
  /\ pc[c] = "notify"
  /\ created' = [created EXCEPT ![c] = Notifications(alerts[c], knownFingerprints[c])]
  /\ fingerprints' =
       setKnownFingerprints(instance[c],
         knownFingerprints[c]
           \o currentFingerprints(Slice(newAlerts(alerts[c], knownFingerprints[c]),
                                        IndividualCap)))
  /\ Did(c, <<"setKnownFingerprints">>)
  /\ Goto(c, "silences")
  /\ UNCHANGED <<ticks, periphery, scheduler, config, alertsCache, silencesCache, badge, instance, settings, alerts,
                 knownFingerprints>>

\* mutant: the cold start is the check of an instance never checked before
NotifyFirstCheckOnly(c) ==
  /\ pc[c] = "notify"
  /\ created' = [created EXCEPT ![c] =
                   IF fingerprints[instance[c]] = <<>>
                   THEN <<>>
                   ELSE NotificationsNoGuard(alerts[c], knownFingerprints[c])]
  /\ fingerprints' = setKnownFingerprints(instance[c], currentFingerprints(alerts[c]))
  /\ Did(c, <<"setKnownFingerprints">>)
  /\ Goto(c, "silences")
  /\ UNCHANGED <<ticks, periphery, scheduler, config, alertsCache, silencesCache, badge, instance, settings, alerts,
                 knownFingerprints>>

\* stage 5, checkForNewAlerts: the notifications, then Storage.setKnownFingerprints
Notify(c) ==
  /\ pc[c] = "notify"
  /\ created' = [created EXCEPT ![c] = Notifications(alerts[c], knownFingerprints[c])]
  /\ fingerprints' = setKnownFingerprints(instance[c], currentFingerprints(alerts[c]))
  /\ Did(c, <<"setKnownFingerprints">>)
  /\ Goto(c, "silences")
  /\ UNCHANGED <<ticks, periphery, scheduler, config, alertsCache, silencesCache, badge, instance, settings, alerts,
                 knownFingerprints>>

\* mutant: a failed notification ends the cycle
NotifyFailAborts(c) ==
  /\ pc[c] = "notify"
  /\ created' = [created EXCEPT ![c] = <<>>]
  /\ Did(c, <<"notifications.create:failed">>)
  /\ pc' = [pc EXCEPT ![c] = "done"]
  /\ UNCHANGED <<ticks, periphery, scheduler, config, store, badge, instance, settings, alerts, knownFingerprints>>

\* stage 5: a chrome.notifications.create call throws after n calls went through
NotifyFail(c) ==
  /\ pc[c] = "notify"
  /\ \E n \in 0..(Len(Notifications(alerts[c], knownFingerprints[c])) - 1) :
       created' = [created EXCEPT ![c] =
                     SubSeq(Notifications(alerts[c], knownFingerprints[c]), 1, n)]
  /\ Did(c, <<"notifications.create:failed">>)
  /\ Goto(c, "silences")
  /\ UNCHANGED <<ticks, periphery, scheduler, config, store, badge, instance, settings, alerts, knownFingerprints>>

\* stage 5: Storage.setKnownFingerprints throws after the notifications
SetKnownFail(c) ==
  /\ pc[c] = "notify"
  /\ created' = [created EXCEPT ![c] = Notifications(alerts[c], knownFingerprints[c])]
  /\ Did(c, <<"setKnownFingerprints:failed">>)
  /\ Goto(c, "silences")
  /\ UNCHANGED <<ticks, periphery, scheduler, config, store, badge, instance, settings, alerts, knownFingerprints>>

\* stage 6: AlertmanagerAPI.getSilences returns s and Storage.cacheSilences stores it
FetchSilences(c, s) ==
  /\ pc[c] = "silences"
  /\ silencesCache' = cacheSilences(instance[c], s)
  /\ Did(c, <<"getSilences", "cacheSilences">>)
  /\ Return(c)
  /\ UNCHANGED <<ticks, periphery, scheduler, config, fingerprints, alertsCache, badge>>

\* mutant: a failed silences fetch drops the cached silences
FetchSilencesFailClears(c) ==
  /\ pc[c] = "silences"
  /\ silencesCache' = [silencesCache EXCEPT ![instance[c]] = <<>>]
  /\ Did(c, <<"getSilences:failed">>)
  /\ Return(c)
  /\ UNCHANGED <<ticks, periphery, scheduler, config, fingerprints, alertsCache, badge>>

\* stage 6: getSilences throws
FetchSilencesFail(c) ==
  /\ pc[c] = "silences"
  /\ Did(c, <<"getSilences:failed">>)
  /\ Return(c)
  /\ UNCHANGED <<ticks, periphery, scheduler, config, store, badge>>

(***************************************************************************)
(* setupAlarm, one action per await, and the listeners of the service      *)
(* worker.                                                                 *)
(***************************************************************************)
\* a listener calls setupAlarm(): it runs up to its first await
SetupStart(s) ==
  /\ setup[s].pc \in {"idle", "done", "rejected"}
  /\ setup' = [setup EXCEPT ![s] = [NoSetup EXCEPT !.pc = "settings"]]

\* const settings = await Storage.getSettings(); const intervalMinutes = ...
SetupGetSettings(s) ==
  /\ setup[s].pc = "settings"
  /\ setup' = [setup EXCEPT ![s] = [pc |-> "clear", pollInterval |-> pollInterval,
                                     intervalMinutes |-> intervalMinutes(pollInterval)]]
  /\ UNCHANGED <<ticks, periphery, config, store, badge, pc, locals, trace, pollInterval, alarms, event>>

\* await chrome.alarms.clear(ALARM_NAME)
SetupClear(s) ==
  /\ setup[s].pc = "clear"
  /\ alarms' = alarmsClear(alarms, ALARM_NAME)
  /\ setup' = [setup EXCEPT ![s].pc = "create"]
  /\ UNCHANGED <<ticks, periphery, config, store, badge, pc, locals, trace, pollInterval, event>>

\* await chrome.alarms.create(ALARM_NAME, {...})
SetupCreate(s) ==
  /\ setup[s].pc = "create"
  /\ alarms' = alarmsCreate(alarms, ALARM_NAME,
                            [delayInMinutes |-> Rat(1, 10),
                             periodInMinutes |-> setup[s].intervalMinutes])
  /\ setup' = [setup EXCEPT ![s].pc = "done"]
  /\ UNCHANGED <<ticks, periphery, config, store, badge, pc, locals, trace, pollInterval, event>>

\* one of the three awaited calls throws: the promise of setupAlarm rejects
SetupFail(s) ==
  /\ setup[s].pc \in {"settings", "clear", "create"}
  /\ setup' = [setup EXCEPT ![s].pc = "rejected"]
  /\ UNCHANGED <<ticks, periphery, config, store, badge, pc, locals, trace, pollInterval, alarms, event>>

\* the events the listeners receive
Events ==
  {[kind |-> "onInstalled"], [kind |-> "onStartup"]}
    \cup {[kind |-> "onChanged", area |-> a, key |-> k] :
            a \in {"sync", "local"}, k \in {"settings", "alerts_i1"}}
    \cup {[kind |-> "onAlarm", name |-> n] : n \in {ALARM_NAME, "other"}}

Deliver(e) == event' = [seq |-> 1 - event.seq, e |-> e]

\* setupAlarm(); pollAlerts();
Rearm ==
  /\ \E s \in Setups : SetupStart(s)
  /\ \E c \in Cycles : Start(c)

\* chrome.alarms.onAlarm
onAlarm(name) ==
  /\ Deliver([kind |-> "onAlarm", name |-> name])
  /\ IF name = ALARM_NAME
     THEN \E c \in Cycles : Start(c)
     ELSE UNCHANGED <<config, store, badge, pc, locals, trace>>
  /\ UNCHANGED <<ticks, periphery, pollInterval, alarms, setup>>

\* chrome.runtime.onInstalled
onInstalled ==
  /\ Deliver([kind |-> "onInstalled"])
  /\ Rearm
  /\ UNCHANGED <<ticks, periphery, pollInterval, alarms>>

\* chrome.runtime.onStartup
onStartup ==
  /\ Deliver([kind |-> "onStartup"])
  /\ Rearm
  /\ UNCHANGED <<ticks, periphery, pollInterval, alarms>>

\* mutant: every storage change re-arms
onChangedAnyKey(area, key) ==
  /\ Deliver([kind |-> "onChanged", area |-> area, key |-> key])
  /\ Rearm
  /\ UNCHANGED <<ticks, periphery, pollInterval, alarms>>

\* chrome.storage.onChanged
onChanged(area, key) ==
  /\ Deliver([kind |-> "onChanged", area |-> area, key |-> key])
  /\ IF area = "sync" /\ key = "settings"
     THEN Rearm
     ELSE UNCHANGED <<config, store, badge, pc, locals, trace, setup>>
  /\ UNCHANGED <<ticks, periphery, pollInterval, alarms>>

\* saveSettings of the options page with another pollInterval: the settings
\* key of the sync area changes and chrome.storage.onChanged fires
savePollInterval(p) ==
  /\ p # pollInterval
  /\ pollInterval' = p
  /\ Deliver([kind |-> "onChanged", area |-> "sync", key |-> "settings"])
  /\ Rearm
  /\ UNCHANGED <<ticks, periphery, alarms>>

\* no pollAlerts invocation is in flight
Quiet == \A c \in Cycles : pc[c] \in {"idle", "done", "rejected"}

\* Spec: one poll cycle at a time.  A change of the settings starts a poll cycle
\* of its own (the storage.onChanged listener), so the settings change between
\* the cycles.
Next ==
  \/ \E c \in Polling : Start(c) /\ UNCHANGED <<ticks, periphery, scheduler>>
  \/ \E c \in Polling : ResolveInstance(c)
  \/ \E c \in Polling : NoActiveInstance(c)
  \/ \E c \in Polling : LoadSettings(c)
  \/ \E c \in Polling : LoadSettingsFail(c)
  \/ \E c \in Polling, r \in FetchResults : FetchAlerts(c, r)
  \/ \E c \in Polling : CacheAlerts(c)
  \/ \E c \in Polling : FetchAlertsFail(c)
  \/ \E c \in Polling : CacheAlertsFail(c)
  \/ \E c \in Polling : UpdateBadge(c)
  \/ \E c \in Polling : UpdateBadgeFail(c)
  \/ \E c \in Polling : GetKnown(c)
  \/ \E c \in Polling : GetKnownFail(c)
  \/ \E c \in Polling : Notify(c)
  \/ \E c \in Polling : NotifyFail(c)
  \/ \E c \in Polling : SetKnownFail(c)
  \/ \E c \in Polling, s \in SilenceResults : FetchSilences(c, s)
  \/ \E c \in Polling : FetchSilencesFail(c)
  \/ \E i \in Configured : Quiet /\ addInstance(i)
  \/ \E i \in Configured : Quiet /\ removeInstance(i)
  \/ \E b \in BOOLEAN, n \in BOOLEAN : Quiet /\ saveSettings(b, n)

Spec == Init /\ [][Next]_vars

(***************************************************************************)
(* SpecNotify: checkForNewAlerts on longer alert lists.  A poll cycle of   *)
(* instance i1 has fetched and cached an alert list and set the badge; the *)
(* stored fingerprints are the ones an earlier cycle left.                 *)
(***************************************************************************)
\* the alert lists fp1..fpn, n <= len, every alert in any state
RECURSIVE FullLists(_)
FullLists(len) ==
  IF len = 0 THEN {<<>>}
  ELSE LET shorter == FullLists(len - 1)
       IN shorter \cup {Append(l, Alert(len, st)) :
                          l \in {x \in shorter : Len(x) = len - 1}, st \in States}

NotifyInputs == FullLists(MaxAlerts)

\* fingerprints_i1: absent, or the list an earlier check stored: fp1..fph, or
\* the fingerprint of an alert that is gone
StoredInputs ==
  {<<>>} \cup {<<[k \in 1..h |-> Fp(k)]>> : h \in 0..MaxAlerts}
         \cup {<<<<Fp(MaxAlerts + 1)>>>>}

\* the state of a cycle c of instance i1 that has fetched and cached the list l
Fetched(c, l, b, n) ==
  /\ instances = <<"i1">>
  /\ activeInstanceId = "i1"
  /\ enableNotifications = n
  /\ enableBadge = b
  /\ alertsCache = [i \in Instances |-> IF i = "i1" THEN <<[alerts |-> l, timestamp |-> 0]>> ELSE <<>>]
  /\ silencesCache = [i \in Instances |-> <<>>]
  /\ instance = [x \in Cycles |-> IF x = c THEN "i1" ELSE None]
  /\ settings = [x \in Cycles |-> IF x = c
                                  THEN [enableBadge |-> b, enableNotifications |-> n]
                                  ELSE NoSettings]
  /\ alerts = [x \in Cycles |-> IF x = c THEN l ELSE <<>>]
  /\ knownFingerprints = [x \in Cycles |-> <<>>]
  /\ created = [x \in Cycles |-> <<>>]
  /\ ticks = 0
  /\ Armed
  /\ PeripheryIdle

InitialBadge == [text |-> "", color |-> Unset, textColor |-> Unset]

InitNotify ==
  \E l \in NotifyInputs, k \in StoredInputs :
    /\ Fetched("alarm", l, TRUE, TRUE)
    /\ fingerprints = [i \in Instances |-> IF i = "i1" THEN k ELSE <<>>]
    /\ badge = updateBadge(InitialBadge, l, TRUE)
    /\ pc = [x \in Cycles |-> IF x = "alarm" THEN "known" ELSE "idle"]
    /\ trace = [x \in Cycles |-> IF x = "alarm"
                  THEN <<"getActiveInstance", "getSettings", "getAlerts", "cacheAlerts",
                         "setBadgeText", "setBadgeBackgroundColor", "setBadgeTextColor">>
                  ELSE <<>>]

NextNotify ==
  \/ \E c \in Polling : GetKnown(c)
  \/ \E c \in Polling : GetKnownFail(c)
  \/ \E c \in Polling : Notify(c)
  \/ \E c \in Polling : NotifyFail(c)
  \/ \E c \in Polling : SetKnownFail(c)

SpecNotify == InitNotify /\ [][NextNotify]_vars

(***************************************************************************)
(* SpecBadge: updateBadge on alert lists of any state and severity, on a   *)
(* badge an earlier cycle left.                                            *)
(***************************************************************************)
RECURSIVE BadgeLists(_)
BadgeLists(len) ==
  IF len = 0 THEN {<<>>}
  ELSE LET shorter == BadgeLists(len - 1)
       IN shorter \cup
          {Append(l, [fingerprint |-> Fp(len), state |-> st, severity |-> sev]) :
             l \in {x \in shorter : Len(x) = len - 1}, st \in States, sev \in Severities}

BadgeInputs == BadgeLists(MaxBadgeAlerts)

PriorBadges ==
  {InitialBadge, DegradedBadge,
   [text |-> "1", color |-> COLOR_CRITICAL, textColor |-> COLOR_TEXT]}

InitBadge ==
  \E l \in BadgeInputs, b \in BOOLEAN, n \in BOOLEAN, prior \in PriorBadges :
    /\ Fetched("alarm", l, b, n)
    /\ fingerprints = [i \in Instances |-> <<>>]
    /\ badge = prior
    /\ pc = [x \in Cycles |-> IF x = "alarm" THEN "badge" ELSE "idle"]
    /\ trace = [x \in Cycles |-> IF x = "alarm"
                  THEN <<"getActiveInstance", "getSettings", "getAlerts", "cacheAlerts">>
                  ELSE <<>>]

NextBadge ==
  \/ \E c \in Polling : UpdateBadge(c)
  \/ \E c \in Polling : UpdateBadgeFail(c)

SpecBadge == InitBadge /\ [][NextBadge]_vars

(***************************************************************************)
(* SpecScenario: three poll cycles, one after the other, of an instance    *)
(* with nothing stored, notifications and badge enabled.  The Alertmanager *)
(* reports fp1 (critical) and fp2 (warning) twice, then these two and fp3  *)
(* (info), all active.  Any entry point starts a cycle; the silences fetch *)
(* returns or fails.                                                       *)
(***************************************************************************)
Scenario ==
  <<<<Alert(1, "active"), Alert(2, "active")>>,
    <<Alert(1, "active"), Alert(2, "active")>>,
    <<Alert(1, "active"), Alert(2, "active"), Alert(3, "active")>>>>

InitScenario ==
  /\ instances = <<"i1">>
  /\ activeInstanceId = "i1"
  /\ enableNotifications = TRUE
  /\ enableBadge = TRUE
  /\ fingerprints = [i \in Instances |-> <<>>]
  /\ alertsCache = [i \in Instances |-> <<>>]
  /\ silencesCache = [i \in Instances |-> <<>>]
  /\ badge = InitialBadge
  /\ pc = [c \in Cycles |-> "idle"]
  /\ instance = [c \in Cycles |-> None]
  /\ settings = [c \in Cycles |-> NoSettings]
  /\ alerts = [c \in Cycles |-> <<>>]
  /\ knownFingerprints = [c \in Cycles |-> <<>>]
  /\ created = [c \in Cycles |-> <<>>]
  /\ trace = [c \in Cycles |-> <<>>]
  /\ ticks = 0
  /\ Armed
  /\ PeripheryIdle

NextScenario ==
  \/ \E c \in Cycles : Quiet /\ ticks < Len(Scenario) /\ Start(c) /\ ticks' = ticks + 1
                          /\ UNCHANGED <<scheduler, periphery>>
  \/ \E c \in Cycles : ResolveInstance(c)
  \/ \E c \in Cycles : LoadSettings(c)
  \/ \E c \in Cycles : ticks \in 1..Len(Scenario) /\ FetchAlerts(c, Scenario[ticks])
  \/ \E c \in Cycles : CacheAlerts(c)
  \/ \E c \in Cycles : UpdateBadge(c)
  \/ \E c \in Cycles : GetKnown(c)
  \/ \E c \in Cycles : Notify(c)
  \/ \E c \in Cycles, s \in SilenceResults : FetchSilences(c, s)
  \/ \E c \in Cycles : FetchSilencesFail(c)

SpecScenario == InitScenario /\ [][NextScenario]_vars

(***************************************************************************)
(* SpecErrors: poll cycles, one at a time, in which every call to a        *)
(* collaborator can fail, the ones outside the try blocks included.        *)
(***************************************************************************)
ErrorFetchResults ==
  {<<>>, <<Alert(1, "active")>>, <<Alert(1, "active"), Alert(2, "active")>>}

NextErrors ==
  \/ \E c \in Polling : Start(c) /\ UNCHANGED <<ticks, periphery, scheduler>>
  \/ \E c \in Polling : ResolveInstance(c)
  \/ \E c \in Polling : ResolveInstanceFail(c)
  \/ \E c \in Polling : NoActiveInstance(c)
  \/ \E c \in Polling : NoActiveInstanceBadgeFail(c)
  \/ \E c \in Polling : LoadSettings(c)
  \/ \E c \in Polling : LoadSettingsFail(c)
  \/ \E c \in Polling, r \in ErrorFetchResults : FetchAlerts(c, r)
  \/ \E c \in Polling : CacheAlerts(c)
  \/ \E c \in Polling : FetchAlertsFail(c)
  \/ \E c \in Polling : CacheAlertsFail(c)
  \/ \E c \in Polling, n \in 0..2 : DegradedBadgeFail(c, n)
  \/ \E c \in Polling : UpdateBadge(c)
  \/ \E c \in Polling : UpdateBadgeFail(c)
  \/ \E c \in Polling : GetKnown(c)
  \/ \E c \in Polling : GetKnownFail(c)
  \/ \E c \in Polling : Notify(c)
  \/ \E c \in Polling : NotifyFail(c)
  \/ \E c \in Polling : SetKnownFail(c)
  \/ \E c \in Polling, s \in SilenceResults : FetchSilences(c, s)
  \/ \E c \in Polling : FetchSilencesFail(c)
  \/ \E i \in Configured : Quiet /\ addInstance(i)
  \/ \E i \in Configured : Quiet /\ removeInstance(i)
  \/ \E b \in BOOLEAN, n \in BOOLEAN : Quiet /\ saveSettings(b, n)

SpecErrors == Init /\ [][NextErrors]_vars

\* a step of a poll cycle in flight: the call it awaits returns or fails
CycleStep ==
  \E c \in Polling :
    \/ ResolveInstance(c)
    \/ ResolveInstanceFail(c)
    \/ NoActiveInstance(c)
    \/ NoActiveInstanceBadgeFail(c)
    \/ LoadSettings(c)
    \/ LoadSettingsFail(c)
    \/ \E r \in ErrorFetchResults : FetchAlerts(c, r)
    \/ CacheAlerts(c)
    \/ FetchAlertsFail(c)
    \/ CacheAlertsFail(c)
    \/ \E n \in 0..2 : DegradedBadgeFail(c, n)
    \/ UpdateBadge(c)
    \/ UpdateBadgeFail(c)
    \/ GetKnown(c)
    \/ GetKnownFail(c)
    \/ Notify(c)
    \/ NotifyFail(c)
    \/ SetKnownFail(c)
    \/ \E s \in SilenceResults : FetchSilences(c, s)
    \/ FetchSilencesFail(c)

\* every call to a collaborator eventually returns or fails
SpecErrorsFair == SpecErrors /\ WF_vars(CycleStep)

(***************************************************************************)
(* SpecScheduler: the listeners and setupAlarm of an extension with no     *)
(* instance configured, so that every poll cycle ends at stage 1.  Two     *)
(* setupAlarm invocations and two pollAlerts invocations can overlap.      *)
(***************************************************************************)
NextScheduler ==
  \/ onInstalled
  \/ onStartup
  \/ \E a \in {"sync", "local"}, k \in {"settings", "alerts_i1"} : onChanged(a, k)
  \/ \E n \in {ALARM_NAME, "other"} : onAlarm(n)
  \/ \E p \in PollIntervals : savePollInterval(p)
  \/ \E s \in Setups : SetupGetSettings(s)
  \/ \E s \in Setups : SetupClear(s)
  \/ \E s \in Setups : SetupCreate(s)
  \/ \E s \in Setups : SetupFail(s)
  \/ \E c \in Cycles : NoActiveInstance(c)

SpecScheduler == Init /\ [][NextScheduler]_vars

(***************************************************************************)
(* SpecPeriod: setupAlarm for every pollInterval the options page can      *)
(* save, called by the settings-change listener.                           *)
(***************************************************************************)
InitPeriod ==
  /\ instances = <<>>
  /\ activeInstanceId = None
  /\ enableNotifications = TRUE
  /\ enableBadge = TRUE
  /\ fingerprints = [i \in Instances |-> <<>>]
  /\ alertsCache = [i \in Instances |-> <<>>]
  /\ silencesCache = [i \in Instances |-> <<>>]
  /\ badge = InitialBadge
  /\ pc = [c \in Cycles |-> "idle"]
  /\ instance = [c \in Cycles |-> None]
  /\ settings = [c \in Cycles |-> NoSettings]
  /\ alerts = [c \in Cycles |-> <<>>]
  /\ knownFingerprints = [c \in Cycles |-> <<>>]
  /\ created = [c \in Cycles |-> <<>>]
  /\ trace = [c \in Cycles |-> <<>>]
  /\ ticks = 0
  /\ pollInterval \in MinPollInterval..MaxPollInterval
  /\ alarms \in {<<>>, alarmsCreate(<<>>, ALARM_NAME,
                                     [delayInMinutes |-> Rat(1, 10),
                                      periodInMinutes |-> intervalMinutes(DEFAULT_POLL_INTERVAL)])}
  /\ setup = [s \in Setups |-> IF s = "a" THEN [NoSetup EXCEPT !.pc = "settings"]
                                ELSE NoSetup]
  /\ event = [seq |-> 0, e |-> [kind |-> "onChanged", area |-> "sync", key |-> "settings"]]
  /\ PeripheryIdle

NextPeriod ==
  \/ \E s \in Setups : SetupGetSettings(s)
  \/ \E s \in Setups : SetupClear(s)
  \/ \E s \in Setups : SetupCreate(s)
  \/ \E s \in Setups : SetupFail(s)

SpecPeriod == InitPeriod /\ [][NextPeriod]_vars

(***************************************************************************)
(* SpecOverlap: two invocations of pollAlerts for instance i1 in flight at *)
(* the same time, the alarm's and one of another entry point, interleaved  *)
(* at every await; every call succeeds.                                    *)
(***************************************************************************)
NextOverlap ==
  \/ \E c \in Cycles : pc[c] = "idle" /\ Start(c) /\ UNCHANGED <<ticks, periphery, scheduler>>
  \/ \E c \in Cycles : ResolveInstance(c)
  \/ \E c \in Cycles : LoadSettings(c)
  \/ \E c \in Cycles, r \in FetchResults : FetchAlerts(c, r)
  \/ \E c \in Cycles : CacheAlerts(c)
  \/ \E c \in Cycles : BadgeSetText(c)
  \/ \E c \in Cycles : BadgeSetColor(c)
  \/ \E c \in Cycles : BadgeSetTextColor(c)
  \/ \E c \in Cycles : GetKnown(c)
  \/ \E c \in Cycles : Notify(c)
  \/ \E c \in Cycles, s \in SilenceResults : FetchSilences(c, s)

\* instance i1 with nothing stored, or with the fingerprint list <<fp1>> an
\* earlier notification check left
InitOverlap ==
  /\ instances = <<"i1">>
  /\ activeInstanceId = "i1"
  /\ enableNotifications = TRUE
  /\ enableBadge = TRUE
  /\ fingerprints \in {[i \in Instances |-> <<>>],
                       [i \in Instances |-> IF i = "i1" THEN <<<<Fp(1)>>>> ELSE <<>>]}
  /\ alertsCache = [i \in Instances |-> <<>>]
  /\ silencesCache = [i \in Instances |-> <<>>]
  /\ badge = InitialBadge
  /\ pc = [c \in Cycles |-> "idle"]
  /\ instance = [c \in Cycles |-> None]
  /\ settings = [c \in Cycles |-> NoSettings]
  /\ alerts = [c \in Cycles |-> <<>>]
  /\ knownFingerprints = [c \in Cycles |-> <<>>]
  /\ created = [c \in Cycles |-> <<>>]
  /\ trace = [c \in Cycles |-> <<>>]
  /\ ticks = 0
  /\ Armed
  /\ PeripheryIdle

SpecOverlap == InitOverlap /\ [][NextOverlap]_vars

(***************************************************************************)
(* SpecInstances: the instance list and the active instance under the      *)
(* options page and the popup's selector.  addInstance gives a new         *)
(* instance an id no instance of the list has.                             *)
(***************************************************************************)
InstanceIds == {"i" \o String(k) : k \in 1..MaxInstances}

NextInstances ==
  \/ \E i \in InstanceIds : addInstance(i)
  \/ \E i \in InstanceIds : removeInstance(i)
  \/ \E i \in InstanceIds : setActiveInstance(i)

SpecInstances == Init /\ [][NextInstances]_vars

(***************************************************************************)
(* SpecSeen and SpecRefire: the history of the alert fp2 over successive   *)
(* poll cycles of instance i1, one cycle after the other, every call       *)
(* succeeding.  ticks counts the cycles started.  In SpecSeen the alert is *)
(* not active in the first fetch and present in every later one.  In       *)
(* SpecRefire the alert is absent from the first fetch, which is not       *)
(* empty, and active in the last fetch and in no fetch before it.          *)
(***************************************************************************)
Tracked == Fp(2)

HistoryLists == AlertLists(MaxFp, States)

Present(l, f) == \E k \in 1..Len(l) : l[k].fingerprint = f

PresentActive(l, f) ==
  \E k \in 1..Len(l) : l[k].fingerprint = f /\ l[k].state = "active"

SeenFetch(t) ==
  {l \in HistoryLists :
     /\ Present(l, Tracked)
     /\ t = 1 => ~PresentActive(l, Tracked)}

RefireFetch(t) ==
  {l \in HistoryLists :
     /\ t = 1 => (l # <<>> /\ ~Present(l, Tracked))
     /\ t < MaxCycles => ~PresentActive(l, Tracked)
     /\ t = MaxCycles => PresentActive(l, Tracked)}

\* the alarm fires after the previous cycle has returned
StartNext ==
  \E c \in Polling :
    /\ Quiet
    /\ ticks < MaxCycles
    /\ Start(c)
    /\ ticks' = ticks + 1
    /\ UNCHANGED <<scheduler, periphery>>

NextSeen ==
  \/ StartNext
  \/ \E c \in Polling : ResolveInstance(c)
  \/ \E c \in Polling : LoadSettings(c)
  \/ \E c \in Polling, r \in SeenFetch(ticks) : FetchAlerts(c, r)
  \/ \E c \in Polling : CacheAlerts(c)
  \/ \E c \in Polling : UpdateBadge(c)
  \/ \E c \in Polling : GetKnown(c)
  \/ \E c \in Polling : Notify(c)
  \/ \E c \in Polling, s \in SilenceResults : FetchSilences(c, s)

SpecSeen == InitOverlap /\ [][NextSeen]_vars

NextRefire ==
  \/ StartNext
  \/ \E c \in Polling : ResolveInstance(c)
  \/ \E c \in Polling : LoadSettings(c)
  \/ \E c \in Polling, r \in RefireFetch(ticks) : FetchAlerts(c, r)
  \/ \E c \in Polling : CacheAlerts(c)
  \/ \E c \in Polling : UpdateBadge(c)
  \/ \E c \in Polling : GetKnown(c)
  \/ \E c \in Polling : Notify(c)
  \/ \E c \in Polling, s \in SilenceResults : FetchSilences(c, s)

SpecRefire == InitOverlap /\ [][NextRefire]_vars

(***************************************************************************)
(* SpecCap: a notification check with more new active alerts than the cap  *)
(* of individual notifications, and the poll cycles after it, one at a     *)
(* time.  The last alert of the first fetch, Capped, comes after at least  *)
(* IndividualCap new active alerts and stays present in every later fetch. *)
(***************************************************************************)
Capped == Fp(MaxAlerts)

\* fingerprints_i1 of an instance checked before: fp1, or an alert that is gone
CapStored == {<<Fp(1)>>, <<Fp(MaxAlerts + 1)>>}

\* the first fetch: fp1..fpMaxAlerts, the last one active
CapInputs(known) ==
  {l \in FullLists(MaxAlerts) :
     /\ Len(l) = MaxAlerts
     /\ l[MaxAlerts].state = "active"
     /\ Len(newAlerts(l, known)) > IndividualCap}

\* the later fetches: the same alerts or the last one alone, in any state
CapFetch ==
  {[k \in 1..MaxAlerts |-> Alert(k, IF k = MaxAlerts THEN st ELSE "active")] :
     st \in States}
    \cup {<<Alert(MaxAlerts, st)>> : st \in States}

InitCap ==
  \E known \in CapStored :
    \E l \in CapInputs(known) :
      /\ Fetched("alarm", l, TRUE, TRUE)
      /\ fingerprints = [i \in Instances |-> IF i = "i1" THEN <<known>> ELSE <<>>]
      /\ badge = updateBadge(InitialBadge, l, TRUE)
      /\ pc = [x \in Cycles |-> IF x = "alarm" THEN "known" ELSE "idle"]
      /\ trace = [x \in Cycles |-> IF x = "alarm"
                    THEN <<"getActiveInstance", "getSettings", "getAlerts", "cacheAlerts",
                           "setBadgeText", "setBadgeBackgroundColor", "setBadgeTextColor">>
                    ELSE <<>>]

NextCap ==
  \/ StartNext
  \/ \E c \in Polling : ResolveInstance(c)
  \/ \E c \in Polling : LoadSettings(c)
  \/ \E c \in Polling, r \in CapFetch : FetchAlerts(c, r)
  \/ \E c \in Polling : CacheAlerts(c)
  \/ \E c \in Polling : UpdateBadge(c)
  \/ \E c \in Polling : GetKnown(c)
  \/ \E c \in Polling : Notify(c)
  \/ \E c \in Polling, s \in SilenceResults : FetchSilences(c, s)

SpecCap == InitCap /\ [][NextCap]_vars

(***************************************************************************)
(* SpecTrigger: the listeners and the poll cycles they start.  The         *)
(* external triggers are the install event, a tick of the alarm and a      *)
(* change of the settings in the sync area.  A write of a poll cycle to    *)
(* chrome.storage.local fires chrome.storage.onChanged for the key         *)
(* written, which reaches the listener at any later moment.                *)
(***************************************************************************)
\* the storage writes of pollAlerts and the keys they change
CycleWrites ==
  {[call |-> "cacheAlerts", key |-> "alerts_i1"],
   [call |-> "setKnownFingerprints", key |-> "fingerprints_i1"],
   [call |-> "cacheSilences", key |-> "silences_i1"]}

\* the last call of cycle c was the storage write w
Wrote(c, w) == Len(trace[c]) > 0 /\ trace[c][Len(trace[c])] = w.call

NextTrigger ==
  \/ onInstalled
  \/ onAlarm(ALARM_NAME)
  \/ onChanged("sync", "settings")
  \/ \E c \in Cycles, w \in CycleWrites : Wrote(c, w) /\ onChanged("local", w.key)
  \/ \E s \in Setups : SetupGetSettings(s)
  \/ \E s \in Setups : SetupClear(s)
  \/ \E s \in Setups : SetupCreate(s)
  \/ \E c \in Cycles : ResolveInstance(c)
  \/ \E c \in Cycles : LoadSettings(c)
  \/ \E c \in Cycles : FetchAlerts(c, <<Alert(1, "active")>>)
  \/ \E c \in Cycles : CacheAlerts(c)
  \/ \E c \in Cycles : UpdateBadge(c)
  \/ \E c \in Cycles : GetKnown(c)
  \/ \E c \in Cycles : Notify(c)
  \/ \E c \in Cycles : FetchSilences(c, <<>>)

SpecTrigger == InitScenario /\ [][NextTrigger]_vars

(***************************************************************************)
(* SpecPinning: poll cycles, one after the other, while the options page   *)
(* and the popup add, remove and switch the instances i1 and i2 at any     *)
(* moment, also in the middle of a cycle.                                  *)
(***************************************************************************)
PinningFetchResults ==
  {<<Alert(1, "active")>>, <<Alert(1, "active"), Alert(2, "active")>>}

NextPinning ==
  \/ \E c \in Polling : Start(c) /\ UNCHANGED <<ticks, periphery, scheduler>>
  \/ \E c \in Polling : ResolveInstance(c)
  \/ \E c \in Polling : NoActiveInstance(c)
  \/ \E c \in Polling : LoadSettings(c)
  \/ \E c \in Polling, r \in PinningFetchResults : FetchAlerts(c, r)
  \/ \E c \in Polling : CacheAlerts(c)
  \/ \E c \in Polling : UpdateBadge(c)
  \/ \E c \in Polling : GetKnown(c)
  \/ \E c \in Polling : Notify(c)
  \/ \E c \in Polling : FetchSilences(c, <<"s1">>)
  \/ \E i \in Instances : addInstance(i)
  \/ \E i \in Instances : removeInstance(i)
  \/ \E i \in Instances : setActiveInstance(i)

SpecPinning == Init /\ [][NextPinning]_vars

(***************************************************************************)
(* AlertmanagerAPI._fetch: one request, from the call to its return or     *)
(* throw.  The environment answers with a status and then a body, fails    *)
(* the connection, or stays silent; the clock advances while the timer is  *)
(* pending and the timer fires when the timeout has elapsed.               *)
(***************************************************************************)
RequestKinds == {"alerts", "silences"}

\* HTTP statuses the server answers with
Statuses == {200, 401, 404, 500, 503}

\* response.ok
ok(status) == status >= 200 /\ status <= 299

\* response.statusText
statusText(status) ==
  CASE status = 200 -> "OK"
    [] status = 401 -> "Unauthorized"
    [] status = 404 -> "Not Found"
    [] status = 500 -> "Internal Server Error"
    [] status = 503 -> "Service Unavailable"

\* `HTTP ${response.status}: ${response.statusText}`
HttpError(status) == "HTTP " \o String(status) \o ": " \o statusText(status)

\* `Request timeout after ${timeout}ms`
TimeoutError == "Request timeout after " \o String(FETCH_TIMEOUT) \o "ms"

\* the message of the TypeError of a failed connection and of the
\* SyntaxError of a body that is not JSON
NetworkError == "Failed to fetch"
ParseError == "Unexpected token"

\* the bodies the server sends for a request kind
Bodies(kind) == IF kind = "alerts" THEN FetchResults ELSE SilenceResults

Returned(value) == [status |-> "returned", value |-> value, message |-> ""]
Threw(message) == [status |-> "threw", value |-> <<>>, message |-> message]
Pending == [status |-> "none", value |-> <<>>, message |-> ""]

\* the request is between its call and its return or throw
InFlight == req.pc \in {"fetching", "reading"}

\* the request has returned or thrown
Ended == req.pc = "ended"

\* finally { clearTimeout(timer) } on the way out with outcome o
Exit(o) ==
  req' = [req EXCEPT !.pc = "ended", !.outcome = o, !.cleared = TRUE,
                     !.timer = IF req.timer = "armed" THEN "cancelled"
                               ELSE req.timer]

\* new AbortController(), setTimeout(() => controller.abort(), timeout), fetch(...)
FetchCall(kind) ==
  /\ req.pc \in {"idle", "ended"}
  /\ req' = [pc |-> "fetching", kind |-> kind, timer |-> "armed",
             aborted |-> FALSE, elapsed |-> 0, cleared |-> FALSE,
             outcome |-> Pending]
  /\ UNCHANGED <<ticks, scheduler, config, store, badge, pc, locals, trace, now, popup>>

\* time passes while the timer is pending
ClockTick ==
  /\ req.timer = "armed"
  /\ req.elapsed < TimeoutTicks
  /\ req' = [req EXCEPT !.elapsed = @ + 1]
  /\ UNCHANGED <<ticks, scheduler, config, store, badge, pc, locals, trace, now, popup>>

\* the timer never aborts the request
TimerFiresIdle ==
  /\ req.timer = "armed"
  /\ req.elapsed = TimeoutTicks
  /\ req' = [req EXCEPT !.timer = "fired"]
  /\ UNCHANGED <<ticks, scheduler, config, store, badge, pc, locals, trace, now, popup>>

\* the timeout has elapsed: () => controller.abort()
TimerFires ==
  /\ req.timer = "armed"
  /\ req.elapsed = TimeoutTicks
  /\ req' = [req EXCEPT !.timer = "fired", !.aborted = TRUE]
  /\ UNCHANGED <<ticks, scheduler, config, store, badge, pc, locals, trace, now, popup>>

\* the response headers arrive before an abort: a non-OK status throws
Respond(status) ==
  /\ req.pc = "fetching"
  /\ ~req.aborted
  /\ IF ok(status)
     THEN req' = [req EXCEPT !.pc = "reading"]
     ELSE Exit(Threw(HttpError(status)))
  /\ UNCHANGED <<ticks, scheduler, config, store, badge, pc, locals, trace, now, popup>>

\* return await response.json()
ReadBody(body) ==
  /\ req.pc = "reading"
  /\ ~req.aborted
  /\ Exit(Returned(body))
  /\ UNCHANGED <<ticks, scheduler, config, store, badge, pc, locals, trace, now, popup>>

\* fetch rejects (connection failed): the catch block rethrows err
ConnectionFails ==
  /\ req.pc = "fetching"
  /\ ~req.aborted
  /\ Exit(Threw(NetworkError))
  /\ UNCHANGED <<ticks, scheduler, config, store, badge, pc, locals, trace, now, popup>>

\* response.json() rejects (the body is not JSON): the catch block rethrows err
BodyFails ==
  /\ req.pc = "reading"
  /\ ~req.aborted
  /\ Exit(Threw(ParseError))
  /\ UNCHANGED <<ticks, scheduler, config, store, badge, pc, locals, trace, now, popup>>

\* the aborted fetch or body read rejects with an AbortError, which the catch
\* block turns into the timeout error
AbortRejects ==
  /\ InFlight
  /\ req.aborted
  /\ Exit(Threw(TimeoutError))
  /\ UNCHANGED <<ticks, scheduler, config, store, badge, pc, locals, trace, now, popup>>

NextFetch ==
  \/ \E kind \in RequestKinds : FetchCall(kind)
  \/ ClockTick
  \/ TimerFires
  \/ \E status \in Statuses : Respond(status)
  \/ \E body \in Bodies(req.kind) : ReadBody(body)
  \/ ConnectionFails
  \/ BodyFails
  \/ AbortRejects

\* the clock advances, a due timer fires and an aborted request is rejected;
\* the server owes no answer
SpecFetch ==
  /\ Init
  /\ [][NextFetch]_vars
  /\ WF_vars(ClockTick)
  /\ WF_vars(TimerFires)
  /\ WF_vars(AbortRejects)

(***************************************************************************)
(* SpecCache: the cache of alerts and silences under the writes of the     *)
(* service worker (pollAlerts, from any number of cycles) and of the popup *)
(* (fetchData).  Date.now() is read when cacheAlerts or cacheSilences is   *)
(* called.  The calls of the worker reach the storage in the order they    *)
(* are made; a write of the popup, which is another context, lands at any  *)
(* moment between its call and its return.                                 *)
(***************************************************************************)
CachedAlertLists == {<<>>, <<Alert(1, "active")>>}

Tick ==
  /\ now < MaxClock
  /\ now' = now + 1
  /\ UNCHANGED <<ticks, scheduler, config, store, badge, pc, locals, trace, req, popup>>

\* pollAlerts: await Storage.cacheAlerts(instance.id, alerts)
WorkerCacheAlerts(id, payload) ==
  /\ alertsCache' = cacheAlerts(id, payload)
  /\ UNCHANGED <<ticks, scheduler, config, fingerprints, silencesCache, badge, pc,
                 locals, trace, periphery>>

\* pollAlerts: await Storage.cacheSilences(instance.id, silences)
WorkerCacheSilences(id, payload) ==
  /\ silencesCache' = cacheSilences(id, payload)
  /\ UNCHANGED <<ticks, scheduler, config, fingerprints, alertsCache, badge, pc,
                 locals, trace, periphery>>

\* fetchData: the active instance is read and the two requests are sent
PopupOpen(id) ==
  /\ popup.pc = "closed"
  /\ popup' = [NoPopup EXCEPT !.pc = "fetching", !.instance = id]
  /\ UNCHANGED <<ticks, scheduler, config, store, badge, pc, locals, trace, req, now>>

\* Promise.all resolves; Storage.cacheAlerts is called and reads the clock
PopupCacheAlerts(alertList, silences) ==
  /\ popup.pc = "fetching"
  /\ popup' = [popup EXCEPT !.pc = "cacheAlerts", !.alerts = alertList,
                             !.silences = silences, !.timestamp = now]
  /\ UNCHANGED <<ticks, scheduler, config, store, badge, pc, locals, trace, req, now>>

\* the alerts entry of the popup lands in the storage
PopupAlertsLand ==
  /\ popup.pc = "cacheAlerts"
  /\ alertsCache' = [alertsCache EXCEPT ![popup.instance] =
                        <<[alerts |-> popup.alerts, timestamp |-> popup.timestamp]>>]
  /\ popup' = [popup EXCEPT !.pc = "alertsCached"]
  /\ UNCHANGED <<ticks, scheduler, config, fingerprints, silencesCache, badge, pc,
                 locals, trace, req, now>>

\* Storage.cacheSilences is called and reads the clock
PopupCacheSilences ==
  /\ popup.pc = "alertsCached"
  /\ popup' = [popup EXCEPT !.pc = "cacheSilences", !.timestamp = now]
  /\ UNCHANGED <<ticks, scheduler, config, store, badge, pc, locals, trace, req, now>>

\* the silences entry of the popup lands in the storage
PopupSilencesLand ==
  /\ popup.pc = "cacheSilences"
  /\ silencesCache' = [silencesCache EXCEPT ![popup.instance] =
                          <<[silences |-> popup.silences,
                             timestamp |-> popup.timestamp]>>]
  /\ popup' = [popup EXCEPT !.pc = "shown"]
  /\ UNCHANGED <<ticks, scheduler, config, fingerprints, alertsCache, badge, pc,
                 locals, trace, req, now>>

\* a request fails: the catch block reads the cached alerts
PopupGetCachedAlerts ==
  /\ popup.pc = "fetching"
  /\ popup' = [popup EXCEPT !.pc = "getCachedSilences",
                             !.cached = <<getCachedAlerts(popup.instance)>>]
  /\ UNCHANGED <<ticks, scheduler, config, store, badge, pc, locals, trace, req, now>>

\* the catch block reads the cached silences
PopupGetCachedSilences ==
  /\ popup.pc = "getCachedSilences"
  /\ popup' = [popup EXCEPT !.pc = "shown",
                             !.cachedSilences = <<getCachedSilences(popup.instance)>>]
  /\ UNCHANGED <<ticks, scheduler, config, store, badge, pc, locals, trace, req, now>>

\* the popup is closed
PopupClose ==
  /\ popup.pc = "shown"
  /\ popup' = NoPopup
  /\ UNCHANGED <<ticks, scheduler, config, store, badge, pc, locals, trace, req, now>>

NextCache ==
  \/ Tick
  \/ \E id \in Instances, payload \in CachedAlertLists : WorkerCacheAlerts(id, payload)
  \/ \E id \in Instances, payload \in SilenceResults : WorkerCacheSilences(id, payload)
  \/ \E id \in Instances : PopupOpen(id)
  \/ \E l \in CachedAlertLists, s \in SilenceResults : PopupCacheAlerts(l, s)
  \/ PopupAlertsLand
  \/ PopupCacheSilences
  \/ PopupSilencesLand
  \/ PopupGetCachedAlerts
  \/ PopupGetCachedSilences
  \/ PopupClose

SpecCache == Init /\ [][NextCache]_vars

(***************************************************************************)
(* Properties.                                                             *)
(***************************************************************************)
Range(s) == {s[k] : k \in 1..Len(s)}

Last(s) == s[Len(s)]

\* the fingerprints of an alert list, as a set
FingerprintsOf(l) == {l[k].fingerprint : k \in 1..Len(l)}

\* cycle c has left the notification check, which returned normally
CheckCompleted(c) ==
  /\ pc[c] = "silences"
  /\ Last(trace[c]) = "setKnownFingerprints"

\* the fingerprint list read back for instance id is exactly the fingerprints
\* of l, in the order of l
StoredExactly(id, l) ==
  LET stored == getKnownFingerprints(id)
  IN /\ Len(stored) = Len(l)
     /\ \A k \in 1..Len(l) : stored[k] = l[k].fingerprint

\* C1: after a notification check that completed, the fingerprint list stored
\* for the polled instance is exactly the fingerprints of the alerts fetched in
\* that cycle, alerts of any state included; a fingerprint that was stored
\* before and is absent from the fetch is no longer stored.
C1_FingerprintsReplaced ==
  \A c \in Cycles :
    CheckCompleted(c) =>
      /\ StoredExactly(instance[c], alerts[c])
      /\ \A fp \in Range(knownFingerprints[c]) \ FingerprintsOf(alerts[c]) :
           ~Includes(getKnownFingerprints(instance[c]), fp)

\* a completed check that dropped a stale fingerprint and stored a non-active alert's
C1_Witness ==
  \E c \in Cycles :
    /\ CheckCompleted(c)
    /\ Range(knownFingerprints[c]) \ FingerprintsOf(alerts[c]) # {}
    /\ \E k \in 1..Len(alerts[c]) : alerts[c][k].state # "active"

\* cycle c has read the stored fingerprints and left the notification check
CheckLeft(c) ==
  /\ pc[c] = "silences"
  /\ \E k \in 1..Len(trace[c]) : trace[c][k] = "getKnownFingerprints"

HasActive(l) == \E k \in 1..Len(l) : l[k].state = "active"

\* C2: a notification check that read an empty fingerprint set creates no
\* notification, individual or batch, and when it completes the stored set is
\* exactly the fingerprints of the fetch; a cycle creates a notification only
\* when it read a non-empty set, and a set is stored for an instance only by a
\* notification check of that instance that completes.
C2_ColdStart ==
  /\ [](\A c \in Cycles :
          /\ (CheckLeft(c) /\ knownFingerprints[c] = <<>>) =>
               /\ created[c] = <<>>
               /\ CheckCompleted(c) => StoredExactly(instance[c], alerts[c])
          /\ (pc[c] = "silences" /\ created[c] # <<>>) =>
               /\ CheckLeft(c)
               /\ knownFingerprints[c] # <<>>)
  /\ [][\A i \in Instances :
          fingerprints'[i] # fingerprints[i] =>
            \E c \in Cycles :
              /\ pc[c] = "notify"
              /\ instance[c] = i
              /\ Last(trace'[c]) = "setKnownFingerprints"]_vars

\* a completed cold-start check of a fetch with active alerts
C2_Witness ==
  \E c \in Cycles :
    /\ CheckCompleted(c)
    /\ knownFingerprints[c] = <<>>
    /\ HasActive(alerts[c])
    /\ created[c] = <<>>
    /\ StoredExactly(instance[c], alerts[c])

\* the new active alerts of cycle c: active, fingerprint not among those read
NewActive(c) ==
  {k \in 1..Len(alerts[c]) :
     /\ alerts[c][k].state = "active"
     /\ alerts[c][k].fingerprint \notin Range(knownFingerprints[c])}

BatchIndexes(c) == {k \in 1..Len(created[c]) : created[c][k].id = "am-alert-batch"}

IndividualIndexes(c) == {k \in 1..Len(created[c]) : created[c][k].id # "am-alert-batch"}

\* C3: a completed notification check that read a non-empty fingerprint set, with
\* k new active alerts, has created exactly min(k,5) individual notifications,
\* and one batch notification if and only if k > 5, whose message states k.
C3_BatchingThreshold ==
  \A c \in Cycles :
    (CheckCompleted(c) /\ knownFingerprints[c] # <<>>) =>
      LET k == Cardinality(NewActive(c))
      IN /\ Cardinality(IndividualIndexes(c)) = (IF k < 5 THEN k ELSE 5)
         /\ Cardinality(BatchIndexes(c)) = (IF k > 5 THEN 1 ELSE 0)
         /\ \A b \in BatchIndexes(c) :
              created[c][b].message = ToString(k) \o " new alerts detected"

\* six new active alerts: five individual notifications and the batch stating 6
C3_Witness ==
  \E c \in Cycles :
    /\ CheckCompleted(c)
    /\ knownFingerprints[c] # <<>>
    /\ Cardinality(NewActive(c)) = 6
    /\ Len(created[c]) = 6
    /\ Cardinality(IndividualIndexes(c)) = 5
    /\ created[c][6].id = "am-alert-batch"
    /\ created[c][6].message = "6 new alerts detected"

\* C4: the step of a poll cycle in which the alert fetch fails sets the badge to
\* '!' on #6b7280 and leaves the stored fingerprints, the alerts cache and the
\* silences cache as they were; so do the steps of the cycle before it.
C4_FetchFailureIsolation ==
  [][\A c \in Cycles :
       /\ (pc[c] \in {"resolve", "settings", "fetch"} /\ pc'[c] # pc[c]) =>
            /\ fingerprints' = fingerprints
            /\ alertsCache' = alertsCache
            /\ silencesCache' = silencesCache
       /\ (pc[c] = "fetch" /\ pc'[c] = "done") =>
            /\ badge'.text = "!"
            /\ badge'.color = "#6b7280"]_vars

\* a cycle whose fetch failed, after a cycle that stored fingerprints and alerts
C4_Witness ==
  \E c \in Cycles :
    /\ pc[c] = "done"
    /\ \E k \in 1..Len(trace[c]) : trace[c][k] = "getAlerts:failed"
    /\ badge.text = "!"
    /\ fingerprints["i1"] # <<>>
    /\ fingerprints["i1"][1] # <<>>
    /\ alertsCache["i1"] # <<>>
    /\ alertsCache["i1"][1].alerts # <<>>

ActiveWith(l, sev) ==
  \E k \in 1..Len(l) : l[k].state = "active" /\ l[k].severity = sev

\* C5: a completed updateBadge with the badge enabled sets the colour #dc2626
\* when some alert is active and critical, else #d97706 when some alert is
\* active and warning, else #4ade80 for no alerts and #2563eb otherwise; with
\* the badge disabled it sets the text to empty and leaves the colour.
C5_BadgeColour ==
  [][\A c \in Cycles :
       (/\ pc[c] = "badge"
        /\ pc'[c] # "badge"
        /\ Last(trace'[c]) \in {"setBadgeText", "setBadgeTextColor"}) =>
         IF settings[c].enableBadge
         THEN badge'.color =
                (IF ActiveWith(alerts[c], "critical") THEN "#dc2626"
                 ELSE IF ActiveWith(alerts[c], "warning") THEN "#d97706"
                 ELSE IF alerts[c] = <<>> THEN "#4ade80"
                 ELSE "#2563eb")
         ELSE /\ badge'.text = ""
              /\ badge'.color = badge.color]_vars

\* the badge computed from an active critical, an active warning and a critical
\* alert that is not active
C5_Witness ==
  \E c \in Cycles :
    /\ pc[c] \in {"known", "silences"}
    /\ Last(trace[c]) = "setBadgeTextColor"
    /\ ActiveWith(alerts[c], "critical")
    /\ ActiveWith(alerts[c], "warning")
    /\ \E k \in 1..Len(alerts[c]) :
         alerts[c][k].state # "active" /\ alerts[c][k].severity = "critical"
    /\ badge.color = "#dc2626"

ActiveIndexes(l) == {k \in 1..Len(l) : l[k].state = "active"}

\* C6: after a completed updateBadge with the badge enabled, the badge text is
\* the decimal count of the active alerts, and empty when no alert is active.
C6_BadgeText ==
  \A c \in Cycles :
    (/\ pc[c] \in {"known", "silences"}
     /\ Last(trace[c]) = "setBadgeTextColor") =>
      LET n == Cardinality(ActiveIndexes(alerts[c]))
      IN badge.text = (IF n = 0 THEN "" ELSE ToString(n))

\* one active alert next to a suppressed and an unprocessed one: text 1
C6_Witness ==
  \E c \in Cycles :
    /\ pc[c] \in {"known", "silences"}
    /\ Last(trace[c]) = "setBadgeTextColor"
    /\ \E k \in 1..Len(alerts[c]) : alerts[c][k].state = "suppressed"
    /\ \E k \in 1..Len(alerts[c]) : alerts[c][k].state = "unprocessed"
    /\ badge.text = "1"

\* the one notification of the scenario: the individual one of fp3 (info)
ScenarioNotification ==
  [id |-> "am-alert-fp3", title |-> "[INFO] Alert", message |-> "New alert fired",
   priority |-> 1]

\* cycle number n of the scenario has passed its notification check
ScenarioChecked(n) ==
  /\ ticks = n
  /\ \/ Quiet
     \/ \E c \in Cycles : pc[c] = "silences"

\* C7: in the three-cycle scenario the first and the second cycle create no
\* notification, store fp1, fp2 and show the badge 2 on the critical colour; the
\* third creates exactly one notification, the individual one of fp3, stores
\* fp1, fp2, fp3 and shows the badge 3 on the critical colour.
C7_Scenario ==
  /\ \A c \in Cycles :
       \/ created[c] = <<>>
       \/ /\ ticks = 3
          /\ created[c] = <<ScenarioNotification>>
  /\ \A c \in Cycles : (ticks = 3 /\ pc[c] = "silences") => created[c] # <<>>
  /\ (ScenarioChecked(1) \/ ScenarioChecked(2)) =>
       /\ fingerprints["i1"] = <<<<"fp1", "fp2">>>>
       /\ badge.text = "2"
       /\ badge.color = "#dc2626"
  /\ ScenarioChecked(3) =>
       /\ fingerprints["i1"] = <<<<"fp1", "fp2", "fp3">>>>
       /\ badge.text = "3"
       /\ badge.color = "#dc2626"

\* the third cycle has returned
C7_Witness ==
  /\ ticks = 3
  /\ Quiet
  /\ \E c \in Cycles : created[c] = <<ScenarioNotification>>
  /\ fingerprints["i1"] = <<<<"fp1", "fp2", "fp3">>>>
  /\ badge.text = "3"

\* no call of cycle c has failed
NoFailure(c) ==
  \A k \in 1..Len(trace[c]) :
    trace[c][k] \notin {"getSettings:failed", "getAlerts:failed", "cacheAlerts:failed",
                        "setBadgeText:failed", "setBadgeBackgroundColor:failed",
                        "getKnownFingerprints:failed", "notifications.create:failed",
                        "setKnownFingerprints:failed", "getSilences:failed"}

C9_CacheOnlyOnSuccess ==
  [][\A i \in Instances :
       /\ alertsCache'[i] # alertsCache[i] =>
            \E c \in Cycles :
              /\ pc[c] = "cache"
              /\ pc'[c] = "badge"
              /\ instance[c] = i
              /\ Last(trace'[c]) = "cacheAlerts"
              /\ alertsCache'[i][1].alerts = alerts[c]
       /\ silencesCache'[i] # silencesCache[i] =>
            \E c \in Cycles :
              /\ pc[c] = "silences"
              /\ pc'[c] = "done"
              /\ instance[c] = i
              /\ Last(trace'[c]) = "cacheSilences"
              /\ \E p \in SilenceResults : silencesCache'[i][1].silences = p
       /\ alertsCache[i] # <<>> => alertsCache'[i] # <<>>
       /\ silencesCache[i] # <<>> => silencesCache'[i] # <<>>]_vars

\* both entries are still there after a cycle whose silences fetch failed
C9_Witness ==
  \E c \in Cycles :
    /\ pc[c] = "done"
    /\ Last(trace[c]) = "getSilences:failed"
    /\ alertsCache["i1"] # <<>>
    /\ silencesCache["i1"] # <<>>
    /\ silencesCache["i1"][1].silences = <<"s1">>

\* C10: the step of a poll cycle that finds no active instance sets the badge
\* text to empty and returns; the cycle has made no other call: no fetch, no
\* cache write, no read or write of a fingerprint set, no notification.
C10_NoActiveInstance ==
  [][\A c \in Cycles :
       (pc[c] = "resolve" /\ pc'[c] # "resolve" /\ getActiveInstance = None) =>
         /\ pc'[c] = "done"
         /\ badge'.text = ""
         /\ badge'.color = badge.color
         /\ fingerprints' = fingerprints
         /\ alertsCache' = alertsCache
         /\ silencesCache' = silencesCache
         /\ created'[c] = <<>>
         /\ trace'[c] = <<"getActiveInstance", "setBadgeText">>]_vars

\* a cycle found no active instance after the instance was removed; its
\* cache entry is still there
C10_Witness ==
  \E c \in Cycles :
    /\ pc[c] = "done"
    /\ trace[c] = <<"getActiveInstance", "setBadgeText">>
    /\ getActiveInstance = None
    /\ badge.text = ""
    /\ badge.color # Unset
    /\ alertsCache["i1"] # <<>>

\* the calls of cycle c named by names, in order
Calls(c, names) ==
  LET Named(x) == x \in names
  IN SelectSeq(trace[c], Named)

\* C11: the step of a poll cycle in which loading the settings fails ends the
\* cycle; the cycle has called nothing but getActiveInstance and getSettings,
\* has created no notification, and the step leaves the badge, the stored
\* fingerprints and both caches as they were; afterwards a new cycle can start.
C11_SettingsFailureFatal ==
  /\ [][\A c \in Cycles :
          (pc[c] = "settings" /\ pc'[c] # "settings"
             /\ Last(trace'[c]) = "getSettings:failed") =>
            /\ pc'[c] = "done"
            /\ trace'[c] = <<"getActiveInstance", "getSettings:failed">>
            /\ created'[c] = <<>>
            /\ badge' = badge
            /\ fingerprints' = fingerprints
            /\ alertsCache' = alertsCache
            /\ silencesCache' = silencesCache]_vars
  /\ [](\A c \in Polling :
          (pc[c] = "done" /\ Last(trace[c]) = "getSettings:failed") =>
            ENABLED Start(c))

\* a cycle stopped at the settings and the badge of an earlier cycle still shows
C11_Witness ==
  \E c \in Cycles :
    /\ pc[c] = "done"
    /\ trace[c] = <<"getActiveInstance", "getSettings:failed">>
    /\ badge.text = "2"
    /\ badge.color = COLOR_CRITICAL
    /\ fingerprints["i1"] # <<>>

\* C12: the step of a poll cycle in which the alert fetch fails ends the cycle
\* with the degraded badge as its only effect: the cycle has called
\* getActiveInstance, getSettings, the failed getAlerts and the three badge
\* writes of the catch block, so no updateBadge, no checkForNewAlerts and no
\* getSilences; no notification is created and no fingerprint set is written.
C12_FetchFailureFatal ==
  [][\A c \in Cycles :
       (pc[c] = "fetch" /\ pc'[c] # "fetch" /\ Last(trace'[c]) # "getAlerts") =>
         /\ pc'[c] = "done"
         /\ trace'[c] = <<"getActiveInstance", "getSettings", "getAlerts:failed",
                          "setBadgeText", "setBadgeBackgroundColor", "setBadgeTextColor">>
         /\ badge' = DegradedBadge
         /\ created'[c] = <<>>
         /\ fingerprints' = fingerprints
         /\ silencesCache' = silencesCache]_vars

\* a cycle with notifications and badge enabled stopped at the failed fetch
\* while the stored fingerprints would have made it notify
C12_Witness ==
  \E c \in Cycles :
    /\ pc[c] = "done"
    /\ Calls(c, {"getAlerts:failed"}) # <<>>
    /\ Calls(c, {"getSilences", "getSilences:failed", "getKnownFingerprints"}) = <<>>
    /\ enableNotifications
    /\ enableBadge
    /\ badge = DegradedBadge
    /\ getKnownFingerprints("i1") # <<>>

\* C13: in a cycle whose alert fetch and caching succeeded, a failed badge
\* update is followed by the notification check (when enabled) and a failed
\* notification check by the silences stage; a failed silences fetch leaves the
\* badge, the notifications created and the stored fingerprints as they were;
\* and such a cycle, once returned, has attempted the silences fetch exactly
\* once, whatever enableBadge and enableNotifications are.
C13_NonFatalIsolation ==
  /\ [][\A c \in Cycles :
          /\ (pc[c] = "badge" /\ pc'[c] # "badge") =>
               pc'[c] = (IF settings[c].enableNotifications THEN "known" ELSE "silences")
          /\ (pc[c] \in {"known", "notify"} /\ pc'[c] # pc[c]) =>
               pc'[c] \in {"notify", "silences"}
          /\ (pc[c] = "known" /\ pc'[c] = "notify") =>
               Last(trace'[c]) = "getKnownFingerprints"
          /\ (pc[c] = "silences" /\ pc'[c] # "silences") =>
               /\ pc'[c] = "done"
               /\ badge' = badge
               /\ created'[c] = created[c]
               /\ fingerprints' = fingerprints]_vars
  /\ [](\A c \in Cycles :
          /\ Len(Calls(c, {"getSilences", "getSilences:failed"})) <= 1
          /\ (pc[c] = "done" /\ Calls(c, {"cacheAlerts"}) # <<>>) =>
               Len(Calls(c, {"getSilences", "getSilences:failed"})) = 1)

\* a cycle whose badge update and notification check both failed has fetched
\* the silences
C13_Witness ==
  \E c \in Cycles :
    /\ pc[c] = "done"
    /\ Calls(c, {"setBadgeText:failed", "setBadgeBackgroundColor:failed"}) # <<>>
    /\ Calls(c, {"notifications.create:failed"}) # <<>>
    /\ Last(trace[c]) = "cacheSilences"

\* C14: whatever calls to the settings store, the API client, the cache, the
\* badge and the notifications fail, the promise returned by pollAlerts is
\* never rejected.
C14_NeverRejects == \A c \in Cycles : pc[c] # "rejected"

\* the alarms named alertmanager-poll
PollAlarms ==
  LET Named(a) == a.name = ALARM_NAME
  IN SelectSeq(alarms, Named)

\* the setupAlarm invocations that have returned
SetupsDone == {s \in Setups : setup[s].pc = "done"}

\* C15: there is never more than one alarm named alertmanager-poll; when no
\* setupAlarm call is in flight or has failed and at least one has completed,
\* sequentially or interleaved with the other, exactly one such alarm exists,
\* with delay 0.1 minute and the period one of the completed calls computed;
\* when the completed calls all read the same interval, it is the period
\* computed from that interval.
C15_OneAlarm ==
  /\ Len(PollAlarms) <= 1
  /\ ((\A s \in Setups : setup[s].pc \in {"idle", "done"}) /\ SetupsDone # {}) =>
       /\ Len(PollAlarms) = 1
       /\ RatEq(PollAlarms[1].delayInMinutes, Rat(1, 10))
       /\ \E s \in SetupsDone : PollAlarms[1].periodInMinutes = setup[s].intervalMinutes
       /\ \A q \in PollIntervals :
            (\A s \in SetupsDone : setup[s].pollInterval = q) =>
              RatEq(PollAlarms[1].periodInMinutes, intervalMinutes(q))

\* two setupAlarm calls with the same interval have completed
C15_Witness ==
  /\ SetupsDone = Setups
  /\ \A s \in Setups : setup[s].pollInterval = 60
  /\ Len(PollAlarms) = 1
  /\ RatEq(PollAlarms[1].periodInMinutes, Rat(1, 1))

\* minutes to seconds
Seconds(r) == (r.num * 60) \div r.den

\* C16: the alarm a completing setupAlarm creates has a delay of 0.1 minute and
\* a period of max(pollInterval, 30) seconds, pollInterval being the configured
\* value, any of 10..300; no alarm has a period below 30 seconds.
C16_PeriodFloor ==
  /\ [][\A s \in Setups :
          (setup[s].pc = "create" /\ setup'[s].pc = "done") =>
            LET a == alarms'[Len(alarms')]
                p == a.periodInMinutes
            IN /\ a.name = ALARM_NAME
               /\ setup[s].pollInterval = pollInterval
               /\ a.delayInMinutes.num * 10 = a.delayInMinutes.den
               /\ (p.num * 60) % p.den = 0
               /\ Seconds(p) = (IF pollInterval >= 30 THEN pollInterval ELSE 30)
               /\ RatEq(p, RatMax(Rat(pollInterval, 60), Rat(1, 2)))]_vars
  /\ [](\A k \in 1..Len(alarms) : Seconds(alarms[k].periodInMinutes) >= 30)

\* an interval of 29 seconds gave a period of 30 seconds
C16_Witness ==
  /\ pollInterval = 29
  /\ \E s \in Setups : setup[s].pc = "done" /\ setup[s].pollInterval = 29
  /\ Len(PollAlarms) = 1
  /\ Seconds(PollAlarms[1].periodInMinutes) = 30

\* the step starts pollAlerts invocation c, setupAlarm invocation s
Started(c) == pc[c] # "resolve" /\ pc'[c] = "resolve"

SetupStarted(s) == setup[s].pc # "settings" /\ setup'[s].pc = "settings"

\* C17: the step that delivers onInstalled, onStartup or a change of the key
\* settings in the area sync starts one setupAlarm and one poll cycle; the
\* step that delivers a tick of the alarm alertmanager-poll starts one poll
\* cycle and no setupAlarm; the step that delivers any other alarm or any
\* other storage change starts neither; nothing else starts them.
C17_Rearming ==
  [][LET e == event'.e
         rearm == \/ e.kind \in {"onInstalled", "onStartup"}
                  \/ (e.kind = "onChanged" /\ e.area = "sync" /\ e.key = "settings")
         tick == e.kind = "onAlarm" /\ e.name = ALARM_NAME
     IN IF event'.seq # event.seq
        THEN /\ Cardinality({c \in Cycles : Started(c)}) = (IF rearm \/ tick THEN 1 ELSE 0)
             /\ Cardinality({s \in Setups : SetupStarted(s)}) = (IF rearm THEN 1 ELSE 0)
             /\ alarms' = alarms
        ELSE /\ \A c \in Cycles : ~Started(c)
             /\ \A s \in Setups : ~SetupStarted(s)]_vars

\* a change of the settings has started a setupAlarm and a poll cycle while
\* the ones the install event started are still running
C17_Witness ==
  /\ event.e = [kind |-> "onChanged", area |-> "sync", key |-> "settings"]
  /\ \A s \in Setups : setup[s].pc \in {"settings", "clear", "create"}
  /\ \A c \in Cycles : pc[c] = "resolve"

\* C18: a cycle that has entered the notification check and left it, its read
\* and its write of the fingerprints not failing, has called
\* setKnownFingerprints exactly once and the stored list is currentFingerprints,
\* whether notifications were created, suppressed or their dispatch failed; and
\* only that step of a poll cycle changes a stored fingerprint list.
C18_WrittenOnce ==
  /\ [](\A c \in Cycles :
          (/\ pc[c] = "silences"
           /\ Calls(c, {"getKnownFingerprints"}) # <<>>
           /\ Calls(c, {"setKnownFingerprints:failed"}) = <<>>) =>
            /\ Len(Calls(c, {"setKnownFingerprints"})) = 1
            /\ StoredExactly(instance[c], alerts[c]))
  /\ [][fingerprints' # fingerprints =>
          \E c \in Cycles : pc[c] = "notify" /\ Last(trace'[c]) = "setKnownFingerprints"]_vars

\* C19: the individual notifications a notification check has created are each
\* for an alert of the fetch that is active and whose fingerprint is not in the
\* list the check read; no alert that is suppressed or unprocessed, or whose
\* fingerprint is in that list, has a notification.
C19_NewAlertDecision ==
  \A c \in Cycles :
    pc[c] = "silences" =>
      /\ \A k \in IndividualIndexes(c) :
           \E j \in NewActive(c) :
             created[c][k].id = "am-alert-" \o alerts[c][j].fingerprint
      /\ \A j \in (1..Len(alerts[c])) \ NewActive(c) :
           \A k \in 1..Len(created[c]) :
             created[c][k].id # "am-alert-" \o alerts[c][j].fingerprint

\* a check notified a new active alert and passed over a known active alert
\* and an unknown suppressed one
C19_Witness ==
  \E c \in Cycles :
    /\ pc[c] = "silences"
    /\ IndividualIndexes(c) # {}
    /\ \E j \in 1..Len(alerts[c]) :
         /\ alerts[c][j].state = "active"
         /\ alerts[c][j].fingerprint \in Range(knownFingerprints[c])
    /\ \E j \in 1..Len(alerts[c]) :
         /\ alerts[c][j].state = "suppressed"
         /\ alerts[c][j].fingerprint \notin Range(knownFingerprints[c])

\* C20: a step that writes the badge text '!' is the catch block of the alert
\* fetch of a poll cycle, and it writes the gray colour with it; after a
\* completed updateBadge the text is not '!', and it is empty when no alert is
\* active.
C20_DegradedDistinct ==
  /\ [][(badge'.text = "!" /\ badge' # badge) =>
          /\ badge' = DegradedBadge
          /\ \E c \in Cycles :
               /\ pc[c] \in {"fetch", "cache"}
               /\ pc'[c] = "done"
               /\ Calls(c, {"getAlerts:failed", "cacheAlerts:failed"})' # <<>>]_vars
  /\ [](\A c \in Cycles :
          (/\ pc[c] \in {"known", "notify", "silences"}
           /\ Calls(c, {"setBadgeText:failed", "setBadgeBackgroundColor:failed"}) = <<>>) =>
            /\ badge.text # "!"
            /\ ~HasActive(alerts[c]) => badge.text = "")

\* a cycle with the badge disabled and no active alert has emptied the text
\* over the gray colour a failed fetch left
C20_Witness ==
  \E c \in Cycles :
    /\ pc[c] = "silences"
    /\ NoFailure(c)
    /\ alerts[c] # <<>>
    /\ ~HasActive(alerts[c])
    /\ badge.text = ""
    /\ badge.color = COLOR_DEGRADED

\* C21: every call of _fetch ends with a result or an error: a request in
\* flight always ends; one whose timeout elapsed before it ended was aborted
\* and ends with the error "Request timeout after 10000ms", never with a
\* result; a non-OK status ends with an "HTTP ..." error; and on every exit
\* (result, HTTP error, network error, timeout) clearTimeout has run and no
\* timer is left pending.
C21_BoundedFetch ==
  /\ [](Ended =>
         /\ req.cleared
         /\ req.timer # "armed"
         /\ req.outcome.status \in {"returned", "threw"}
         /\ req.outcome.status = "returned" =>
              /\ ~req.aborted
              /\ req.outcome.value \in Bodies(req.kind)
         /\ req.aborted => req.outcome = Threw(TimeoutError))
  /\ [](TimeoutError = "Request timeout after 10000ms")
  /\ [][\A status \in Statuses :
         (Respond(status) /\ ~ok(status)) =>
           /\ Ended'
           /\ req'.outcome = Threw(HttpError(status))]_vars
  /\ (InFlight ~> Ended)

\* a request nobody answered has ended with the timeout error, the timer gone
C21_Witness ==
  /\ Ended
  /\ req.elapsed = TimeoutTicks
  /\ req.pc = "ended"
  /\ req.timer = "fired"
  /\ req.cleared
  /\ req.outcome = Threw(TimeoutError)

\* a put of alerts for instance id happens in this step
PutAlerts(id) ==
  \/ \E payload \in CachedAlertLists : WorkerCacheAlerts(id, payload)
  \/ PopupAlertsLand /\ popup.instance = id

\* a put of silences for instance id happens in this step
PutSilences(id) ==
  \/ \E payload \in SilenceResults : WorkerCacheSilences(id, payload)
  \/ PopupSilencesLand /\ popup.instance = id

\* the entries of the other instances and of the other kind stay as they are
OthersKept(id, kind) ==
  /\ \A j \in Instances :
       (j # id \/ kind # "alerts") => alertsCache'[j] = alertsCache[j]
  /\ \A j \in Instances :
       (j # id \/ kind # "silences") => silencesCache'[j] = silencesCache[j]
  /\ UNCHANGED fingerprints

\* C22: after cacheAlerts(id, P), getCachedAlerts(id) returns the entry with
\* payload P and the timestamp read when the put was called, whatever entry
\* was there before; the same for cacheSilences and getCachedSilences; the
\* get of an (instance, kind) never written returns null; and a put leaves
\* the entries of every other instance and of the other kind unchanged.
C22_CachePutGet ==
  /\ [][\A id \in Instances :
         /\ \A payload \in CachedAlertLists :
              WorkerCacheAlerts(id, payload) =>
                /\ getCachedAlerts(id)' = [alerts |-> payload, timestamp |-> now]
                /\ OthersKept(id, "alerts")
         /\ \A payload \in SilenceResults :
              WorkerCacheSilences(id, payload) =>
                /\ getCachedSilences(id)' = [silences |-> payload, timestamp |-> now]
                /\ OthersKept(id, "silences")
         /\ (PopupAlertsLand /\ popup.instance = id) =>
              /\ getCachedAlerts(id)' =
                   [alerts |-> popup.alerts, timestamp |-> popup.timestamp]
              /\ OthersKept(id, "alerts")
         /\ (PopupSilencesLand /\ popup.instance = id) =>
              /\ getCachedSilences(id)' =
                   [silences |-> popup.silences, timestamp |-> popup.timestamp]
              /\ OthersKept(id, "silences")
         /\ (getCachedAlerts(id) = Null /\ ~PutAlerts(id)) =>
              getCachedAlerts(id)' = Null
         /\ (getCachedSilences(id) = Null /\ ~PutSilences(id)) =>
              getCachedSilences(id)' = Null
         /\ PopupGetCachedAlerts =>
              popup'.cached = <<getCachedAlerts(popup.instance)>>]_vars
  /\ \A id \in Instances :
       getCachedAlerts(id) = Null /\ getCachedSilences(id) = Null

\* the popup has read null for i2, which was never written, while i1 holds an
\* entry that replaced an older one, and the silences of i1 were never written
C22_Witness ==
  /\ popup.pc = "shown"
  /\ popup.instance = "i2"
  /\ popup.cached = <<Null>>
  /\ popup.cachedSilences = <<Null>>
  /\ getCachedAlerts("i1") = [alerts |-> <<Alert(1, "active")>>, timestamp |-> MaxClock]
  /\ getCachedSilences("i1") = Null

\* C23: for each (instance, kind), the timestamp of the stored entry never
\* goes back from one successful write to the next, whoever writes (a poll
\* cycle or the popup), the clock being non-decreasing.
C23_TimestampsMonotone ==
  [][\A id \in Instances :
       /\ (alertsCache[id] # <<>> /\ alertsCache'[id] # <<>>) =>
            alertsCache'[id][1].timestamp >= alertsCache[id][1].timestamp
       /\ (silencesCache[id] # <<>> /\ silencesCache'[id] # <<>>) =>
            silencesCache'[id][1].timestamp >= silencesCache[id][1].timestamp]_vars

\* the index in the fetched list of the k-th new active alert of cycle c
NthNew(c, k) ==
  CHOOSE i \in NewActive(c) : Cardinality({j \in NewActive(c) : j < i}) = k - 1

\* C24: in a notification check with more than 5 new active alerts, the k-th
\* notification created (k <= 5) is the individual notification of the k-th
\* new active alert of the fetched list, whatever its severity, and a check
\* that completed has created individual notifications for exactly these five.
C24_FetchOrder ==
  \A c \in Cycles :
    (knownFingerprints[c] # <<>> /\ Cardinality(NewActive(c)) > 5) =>
      /\ \A k \in 1..Len(created[c]) :
           k <= 5 => created[c][k] = Individual(alerts[c][NthNew(c, k)])
      /\ CheckCompleted(c) =>
           /\ Len(created[c]) >= 5
           /\ IndividualIndexes(c) = 1..5

\* seven alerts, the first known, the other six new; the second (a warning)
\* is notified first, before the fifth (critical), and the seventh not at all
C24_Witness ==
  \E c \in Cycles :
    /\ CheckCompleted(c)
    /\ knownFingerprints[c] = <<Fp(1)>>
    /\ NewActive(c) = 2..7
    /\ alerts[c][5].severity = "critical"
    /\ alerts[c][2].severity = "warning"
    /\ created[c][1].id = "am-alert-" \o Fp(2)
    /\ created[c][4].id = "am-alert-" \o Fp(5)
    /\ \A k \in 1..Len(created[c]) : created[c][k].id # "am-alert-" \o Fp(7)

\* C25: the k-th individual notification of a cycle has the id "am-alert-"
\* followed by the fingerprint of the k-th new active alert, the alert it
\* describes; the batch notification has the id "am-alert-batch"; the ids of
\* the notifications of one cycle are pairwise different, and no individual
\* notification has the id of the batch.  (The fingerprints Alertmanager
\* reports are distinct within one answer and none is "batch".)
C25_NotificationIds ==
  \A c \in Cycles :
    /\ \A k \in 1..Len(created[c]) :
         IF k <= 5
         THEN /\ created[c][k].id = "am-alert-" \o alerts[c][NthNew(c, k)].fingerprint
              /\ created[c][k].id # "am-alert-batch"
              /\ created[c][k].message = "New alert fired"
         ELSE /\ created[c][k].id = "am-alert-batch"
              /\ created[c][k].message =
                   ToString(Cardinality(NewActive(c))) \o " new alerts detected"
    /\ \A k, h \in 1..Len(created[c]) : k # h => created[c][k].id # created[c][h].id

\* five individual notifications, two of them for critical alerts, and the batch
C25_Witness ==
  \E c \in Cycles :
    /\ CheckCompleted(c)
    /\ Len(created[c]) = 6
    /\ created[c][1].id = "am-alert-fp1"
    /\ created[c][5].id = "am-alert-fp5"
    /\ created[c][1].priority = 2
    /\ created[c][5].priority = 2
    /\ created[c][6].id = "am-alert-batch"

\* cycle c has written its alerts cache entry, its badge text, its badge
\* colour, its fingerprints, and has not returned yet
CacheWritten(c) ==
  pc[c] \in {"badge", "badgeColor", "badgeTextColor", "known", "notify", "silences"}

TextWritten(c) == pc[c] \in {"badgeColor", "badgeTextColor", "known", "notify", "silences"}

ColorWritten(c) == pc[c] \in {"badgeTextColor", "known", "notify", "silences"}

FingerprintsWritten(c) == pc[c] = "silences" /\ Last(trace[c]) = "setKnownFingerprints"

\* C26: when poll cycles of one instance overlap, the alerts cache entry, the
\* stored fingerprints and the badge hold the complete value of one single
\* cycle: once every cycle has written the cache entry (the fingerprints),
\* the entry (the list) is the one of one of them; once every cycle has
\* written the badge text, the text and the colour on the badge are those of
\* one cycle that wrote the colour.
C26_LastWriteWins ==
  /\ (\A c \in Cycles : CacheWritten(c)) =>
       \E c \in Cycles : alertsCache["i1"][1].alerts = alerts[c]
  /\ (\A c \in Cycles : FingerprintsWritten(c)) =>
       \E c \in Cycles : fingerprints["i1"] = <<currentFingerprints(alerts[c])>>
  /\ ((\A c \in Cycles : TextWritten(c)) /\ (\E c \in Cycles : ColorWritten(c))) =>
       \E c \in Cycles :
         /\ ColorWritten(c)
         /\ badge.text = BadgeText(alerts[c])
         /\ badge.color = getBadgeColor(alerts[c])

\* the place of a call in the order of pollAlerts; a failed call has the
\* place of the call
StageRank(call) ==
  CASE call \in {"getActiveInstance", "getActiveInstance:failed"} -> 1
    [] call \in {"getSettings", "getSettings:failed"} -> 2
    [] call \in {"getAlerts", "getAlerts:failed"} -> 3
    [] call \in {"cacheAlerts", "cacheAlerts:failed"} -> 4
    [] call \in {"setBadgeText", "setBadgeText:failed"} -> 5
    [] call \in {"setBadgeBackgroundColor", "setBadgeBackgroundColor:failed"} -> 6
    [] call \in {"setBadgeTextColor", "setBadgeTextColor:failed"} -> 7
    [] call \in {"getKnownFingerprints", "getKnownFingerprints:failed"} -> 8
    [] call = "notifications.create:failed" -> 9
    [] call \in {"setKnownFingerprints", "setKnownFingerprints:failed"} -> 10
    [] call \in {"getSilences", "getSilences:failed"} -> 11
    [] call \in {"cacheSilences", "cacheSilences:failed"} -> 12

\* the calls of cycle c so far include one of names
Called(c, names) == \E k \in 1..Len(trace[c]) : trace[c][k] \in names

\* C27: the calls of one poll cycle come in the order resolve instance, load
\* settings, fetch alerts, write alerts cache, badge (text, colour, text
\* colour), fingerprint read, notification creation, fingerprint write,
\* fetch silences, write silences cache, each at most once and only after
\* the one before it has returned; the cycle is at one step at a time; and a
\* cycle that is about to fetch the silences has been through the badge
\* update and, with notifications enabled, through the notification check.
C27_StageOrder ==
  \A c \in Cycles :
    /\ \A k \in 1..Len(trace[c]), h \in 1..Len(trace[c]) :
         k < h => StageRank(trace[c][k]) < StageRank(trace[c][h])
    /\ pc[c] = "settings" => StageRank(Last(trace[c])) = 1
    /\ pc[c] = "fetch" => StageRank(Last(trace[c])) = 2
    /\ pc[c] = "cache" => StageRank(Last(trace[c])) = 3
    /\ pc[c] = "badge" => StageRank(Last(trace[c])) = 4
    /\ pc[c] = "known" => StageRank(Last(trace[c])) \in 5..7
    /\ pc[c] = "notify" => StageRank(Last(trace[c])) = 8
    /\ pc[c] = "silences" =>
         /\ Called(c, {"setBadgeText", "setBadgeText:failed"})
         /\ ~Called(c, {"getSilences", "getSilences:failed"})
         /\ settings[c].enableNotifications =>
              /\ Called(c, {"getKnownFingerprints", "getKnownFingerprints:failed"})
              /\ Last(trace[c]) \in {"setKnownFingerprints",
                                      "setKnownFingerprints:failed",
                                      "notifications.create:failed",
                                      "getKnownFingerprints:failed"}
         /\ ~settings[c].enableNotifications => StageRank(Last(trace[c])) \in 5..7

\* a cycle has run all its stages and created a notification, the silences last
C27_Witness ==
  \E c \in Cycles :
    /\ pc[c] = "done"
    /\ trace[c] = <<"getActiveInstance", "getSettings", "getAlerts", "cacheAlerts",
                    "setBadgeText", "setBadgeBackgroundColor", "setBadgeTextColor",
                    "getKnownFingerprints", "setKnownFingerprints", "getSilences",
                    "cacheSilences">>
    /\ created[c] # <<>>

\* cycle c has loaded its settings and notifications are disabled in them
NotificationsOff(c) ==
  /\ pc[c] \in {"fetch", "cache", "badge", "known", "notify", "silences"}
  /\ ~settings[c].enableNotifications

FingerprintCalls ==
  {"getKnownFingerprints", "getKnownFingerprints:failed", "setKnownFingerprints",
   "setKnownFingerprints:failed", "notifications.create:failed"}

\* C28: a poll cycle whose settings have enableNotifications false creates no
\* notification and neither reads nor writes the stored fingerprints, which
\* stay as the last notification check left them; it still writes the alerts
\* cache and the badge before it fetches the silences, and its silences
\* fetch, when it succeeds, writes the silences cache.
C28_NotificationGating ==
  /\ [](\A c \in Cycles :
          (NotificationsOff(c) /\ pc[c] = "silences" /\ NoFailure(c)) =>
            /\ alertsCache[instance[c]] # <<>>
            /\ alertsCache[instance[c]][1].alerts = alerts[c]
            /\ badge = updateBadge(badge, alerts[c], settings[c].enableBadge)
            /\ badge.text = (IF settings[c].enableBadge THEN BadgeText(alerts[c]) ELSE ""))
  /\ [][\A c \in Cycles :
         NotificationsOff(c) =>
           /\ created'[c] = <<>>
           /\ ~Called(c, FingerprintCalls)'
           /\ fingerprints' = fingerprints
           /\ \A s \in SilenceResults :
                FetchSilences(c, s) =>
                  silencesCache'[instance[c]][1].silences = s]_vars

\* notifications were switched off after a check stored fp1; the next cycle
\* fetched fp1 and fp2, cached them, set the badge to 2, fetched the
\* silences, and the stored fingerprints are still those of the earlier check
C28_Witness ==
  \E c \in Cycles :
    /\ pc[c] = "done"
    /\ ~enableNotifications
    /\ trace[c] = <<"getActiveInstance", "getSettings", "getAlerts", "cacheAlerts",
                    "setBadgeText", "setBadgeBackgroundColor", "setBadgeTextColor",
                    "getSilences", "cacheSilences">>
    /\ created[c] = <<>>
    /\ fingerprints["i1"] = <<<<Fp(1)>>>>
    /\ alertsCache["i1"][1].alerts = <<Alert(1, "active"), Alert(2, "active")>>
    /\ badge.text = "2"
    /\ silencesCache["i1"] # <<>>

\* C29: an empty stored fingerprint list reads like no list at all; in a
\* cycle that read the empty list an earlier check had stored (the check of
\* a fetch of zero alerts), the notification step creates no notification,
\* whatever the number of new active alerts, and the check that completes
\* stores the fingerprints of the fetched alerts.
C29_ColdStartByEmptiness ==
  /\ [](\A i \in Instances :
          fingerprints[i] \in {<<>>, <<<<>>>>} => getKnownFingerprints(i) = <<>>)
  /\ [][\A c \in Cycles :
         (/\ pc[c] = "notify"
          /\ pc'[c] # "notify"
          /\ fingerprints[instance[c]] = <<<<>>>>
          /\ knownFingerprints[c] = <<>>) =>
           /\ created'[c] = <<>>
           /\ Last(trace'[c]) = "setKnownFingerprints" =>
                LET stored == fingerprints'[instance[c]][1]
                IN /\ Len(stored) = Len(alerts[c])
                   /\ \A k \in NewActive(c) : stored[k] = alerts[c][k].fingerprint]_vars

\* an earlier cycle ran to its end (the silences are cached); this one read
\* an empty list, fetched two new active alerts, created nothing and stored both
C29_Witness ==
  \E c \in Cycles :
    /\ CheckCompleted(c)
    /\ silencesCache[instance[c]] # <<>>
    /\ knownFingerprints[c] = <<>>
    /\ NewActive(c) = {1, 2}
    /\ created[c] = <<>>
    /\ fingerprints[instance[c]] = <<<<Fp(1), Fp(2)>>>>

\* cycle c has started and has not returned or rejected yet
Running(c) == pc[c] \notin {"idle", "done", "rejected"}

\* C30: when every awaited call eventually returns or fails, a poll cycle
\* that has started reaches its end (pollAlerts returns or rejects), whatever
\* the outcome of each stage; and a cycle calls getAlerts at most once and
\* getSilences at most once.
C30_Terminates ==
  /\ \A c \in Cycles : Running(c) ~> ~Running(c)
  /\ [](\A c \in Cycles :
          /\ Len(Calls(c, {"getAlerts", "getAlerts:failed"})) <= 1
          /\ Len(Calls(c, {"getSilences", "getSilences:failed"})) <= 1)

\* a cycle has returned although its badge update, its fingerprint read and
\* its silences fetch failed; it fetched the alerts once
C30_Witness ==
  \E c \in Cycles :
    /\ pc[c] = "done"
    /\ Called(c, {"setBadgeText:failed"})
    /\ Called(c, {"getKnownFingerprints:failed"})
    /\ Last(trace[c]) = "getSilences:failed"
    /\ Len(Calls(c, {"getAlerts"})) = 1

\* C31: getActiveInstance returns none, or the one instance of the list whose
\* id is activeInstanceId; addInstance with no active instance makes the new
\* instance active; removeInstance of the active instance makes the first
\* remaining instance active, or none when the list is empty; removeInstance
\* of another instance leaves the active one.
C31_ActiveInstance ==
  /\ [](\/ getActiveInstance = None
         \/ /\ getActiveInstance = activeInstanceId
            /\ Cardinality({k \in 1..Len(instances) :
                              instances[k] = getActiveInstance}) = 1)
  /\ [][\A i \in InstanceIds :
         /\ (addInstance(i) /\ getActiveInstance = None) => getActiveInstance' = i
         /\ (addInstance(i) /\ getActiveInstance # None) =>
              getActiveInstance' = getActiveInstance
         /\ (removeInstance(i) /\ getActiveInstance = i) =>
              getActiveInstance' = (IF instances' = <<>> THEN None ELSE instances'[1])
         /\ (removeInstance(i) /\ getActiveInstance # i) =>
              getActiveInstance' = getActiveInstance
         /\ setActiveInstance(i) => getActiveInstance' = i]_vars

\* three instances in the order i2, i3, i1 (i1 was removed and added again),
\* the first of the list active
C31_Witness ==
  /\ instances = <<"i2", "i3", "i1">>
  /\ getActiveInstance = "i2"

\* cycle c has created a notification for the alert of fingerprint f
Announced(c, f) ==
  \E k \in 1..Len(created[c]) : created[c][k].id = "am-alert-" \o f

\* cycle c holds a fetched list in which the alert of fingerprint f is active
FetchedActive(c, f) ==
  /\ CacheWritten(c)
  /\ \E k \in 1..Len(alerts[c]) :
       alerts[c][k].fingerprint = f /\ alerts[c][k].state = "active"

\* C32: an alert that is active in the fetch of every poll cycle in flight
\* gets a notification from at most one of them, also when the cycles
\* overlap and each reads the stored fingerprints before the other writes.
C32_NoDuplicateNotification ==
  \A f \in {Fp(k) : k \in 1..MaxFp} :
    (\A c \in Cycles : FetchedActive(c, f)) =>
      Cardinality({c \in Cycles : Announced(c, f)}) <= 1

\* C33: an alert that is suppressed or unprocessed in the fetch of a cycle
\* that runs the notification check has its fingerprint stored by that
\* check, and while it is present in every later fetch no cycle creates a
\* notification for it, also when it becomes active.
C33_SeenNotActive ==
  \A c \in Cycles :
    /\ ~Announced(c, Tracked)
    /\ (ticks >= 1 /\ CheckCompleted(c)) =>
         Includes(getKnownFingerprints(instance[c]), Tracked)
    /\ (ticks >= 2 /\ pc[c] = "notify") => Includes(knownFingerprints[c], Tracked)

\* the third cycle: fp2 is active now, the check has announced fp1 only
C33_Witness ==
  \E c \in Cycles :
    /\ ticks = 3
    /\ CheckCompleted(c)
    /\ PresentActive(alerts[c], Tracked)
    /\ knownFingerprints[c] = <<Tracked>>
    /\ Len(created[c]) = 1
    /\ Announced(c, Fp(1))

\* C34 as claimed: a fingerprint absent from the fetch of one completed
\* cycle that ran the notification check, and active in the fetch of a later
\* cycle that read a non-empty fingerprint list, is announced in that later
\* cycle.
C34_AnyLaterCycle ==
  \A c \in Cycles :
    (/\ ticks = MaxCycles
     /\ CheckCompleted(c)
     /\ knownFingerprints[c] # <<>>) => Announced(c, Tracked)

\* C34: the check of a fetch without the alert leaves a fingerprint list
\* without its fingerprint, the list being the fingerprints of the last
\* fetch and nothing else; and a cycle that reads a non-empty list without
\* the fingerprint, the alert being active in its fetch and among the first
\* 5 new ones, creates the individual notification of the alert.
C34_Refired ==
  \A c \in Polling :
    /\ (ticks = 1 /\ CheckCompleted(c)) =>
         ~Includes(getKnownFingerprints(instance[c]), Tracked)
    /\ (ticks >= 2 /\ pc[c] \in {"resolve", "settings", "fetch"}) =>
         StoredExactly("i1", alertsCache["i1"][1].alerts)
    /\ (/\ CheckCompleted(c)
        /\ knownFingerprints[c] # <<>>
        /\ ~Includes(knownFingerprints[c], Tracked)
        /\ PresentActive(alerts[c], Tracked)) =>
         \A k \in NewActive(c) :
           (/\ alerts[c][k].fingerprint = Tracked
            /\ Cardinality({j \in NewActive(c) : j < k}) < 5) =>
             /\ Announced(c, Tracked)
             /\ \E h \in 1..Len(created[c]) : created[c][h] = Individual(alerts[c][k])

\* the last cycle: the list read has fp1 only and the active fp2 is announced
C34_Witness ==
  \E c \in Cycles :
    /\ ticks = MaxCycles
    /\ CheckCompleted(c)
    /\ knownFingerprints[c] = <<Fp(1)>>
    /\ PresentActive(alerts[c], Tracked)
    /\ Announced(c, Tracked)

\* C35: while enableBadge is false, a poll cycle that returns (after all its
\* stages, after a failed alerts fetch, or for want of an active instance)
\* without a failed settings read or badge call leaves the badge text empty.
C35_DisabledBadgeHidden ==
  [][\A c \in Cycles :
       (/\ Running(c)
        /\ pc'[c] = "done"
        /\ ~enableBadge
        /\ ~Called(c, {"getSettings:failed", "setBadgeText:failed"})') =>
         badge'.text = ""]_vars

\* the event is one of the external triggers of the polling engine
ExternalTrigger(e) ==
  \/ e.kind \in {"onInstalled", "onStartup"}
  \/ e.kind = "onAlarm" /\ e.name = ALARM_NAME
  \/ e.kind = "onChanged" /\ e.area = "sync" /\ e.key = "settings"

\* C36: a step of a poll cycle or of setupAlarm writes nothing to the
\* synchronized settings and starts no cycle and no setupAlarm; the change
\* events of the keys a cycle writes (alerts_, fingerprints_, silences_ in
\* the local area) start nothing when they reach the listener; the step
\* that delivers an external trigger starts exactly one poll cycle and at
\* most one setupAlarm.
C36_NoSelfTrigger ==
  [][IF event'.seq # event.seq
     THEN IF ExternalTrigger(event'.e)
          THEN /\ Cardinality({c \in Cycles : Started(c)}) = 1
               /\ Cardinality({s \in Setups : SetupStarted(s)}) <= 1
          ELSE /\ event'.e.kind = "onChanged"
               /\ event'.e.area = "local"
               /\ \A c \in Cycles : ~Started(c) /\ pc'[c] = pc[c]
               /\ \A s \in Setups : ~SetupStarted(s)
     ELSE /\ \A c \in Cycles : ~Started(c)
          /\ \A s \in Setups : ~SetupStarted(s)
          /\ UNCHANGED <<config, pollInterval>>]_vars

\* the change of alerts_i1 that the alarm's cycle caused has reached the
\* listener: the cycle goes on and no other cycle has started
C36_Witness ==
  /\ event.e = [kind |-> "onChanged", area |-> "local", key |-> "alerts_i1"]
  /\ pc["alarm"] = "badge"
  /\ pc["pollNow"] = "idle"
  /\ \A s \in Setups : setup[s].pc = "idle"

\* cycle c has resolved its instance and not returned yet
Pinned(c) == Running(c) /\ pc[c] # "resolve"

\* C37: from the moment a poll cycle has resolved its instance to its
\* return, whatever happens to the instance list and the active instance,
\* the instance of the cycle stays the same, the cycle reads the stored
\* fingerprints of that instance, and its steps leave the alerts cache
\* entry, the fingerprint list and the silences cache entry of every other
\* instance as they are and write the ones of that instance.
C37_InstancePinning ==
  [][\A c \in Cycles, i \in Instances :
       (Pinned(c) /\ instance[c] = i /\ trace'[c] # trace[c]) =>
         /\ pc'[c] \notin {"idle", "done", "rejected"} => instance'[c] = i
         /\ \A j \in Instances \ {i} :
              /\ alertsCache'[j] = alertsCache[j]
              /\ fingerprints'[j] = fingerprints[j]
              /\ silencesCache'[j] = silencesCache[j]
         /\ pc[c] = "cache" =>
              /\ alertsCache'[i] # <<>>
              /\ alertsCache'[i][1].alerts = alerts[c]
         /\ pc[c] = "known" =>
              knownFingerprints'[c] = getKnownFingerprints(i)
         /\ pc[c] = "notify" =>
              fingerprints'[i] =
                <<[k \in 1..Len(alerts[c]) |-> alerts[c][k].fingerprint]>>
         /\ pc[c] = "silences" => silencesCache'[i] # <<>>]_vars

\* i1 was removed while its cycle ran and i2 is active: the cycle has
\* written the cache entry and the fingerprints of i1 and nothing of i2
C37_Witness ==
  \E c \in Cycles :
    /\ CheckCompleted(c)
    /\ instance[c] = "i1"
    /\ instances = <<"i2">>
    /\ getActiveInstance = "i2"
    /\ getCachedAlerts("i1") # Null
    /\ getKnownFingerprints("i1") # <<>>
    /\ getCachedAlerts("i2") = Null
    /\ fingerprints["i2"] = <<>>

\* the calls of a poll cycle that come after the fetch stage
LaterStages ==
  {"getKnownFingerprints", "getKnownFingerprints:failed", "notifications.create:failed",
   "setKnownFingerprints", "setKnownFingerprints:failed", "getSilences",
   "getSilences:failed", "cacheSilences"}

\* C39: when the alerts were fetched and writing the alerts cache fails, the
\* cycle ends in that step: with the badge writes going through the badge is
\* the degraded one ('!', gray) whatever the fetched alerts and the badge
\* setting are, the stored fingerprints and both caches stay as they were, and
\* no notification is created; and a cycle whose cache write failed has ended
\* without a fingerprint read or write and without the silences stage.
C39_CacheFailureIsFetchFailure ==
  /\ [](\A c \in Cycles :
         Called(c, {"cacheAlerts:failed"}) =>
           /\ pc[c] \in {"done", "rejected"}
           /\ Called(c, {"getAlerts"})
           /\ ~Called(c, LaterStages)
           /\ created[c] = <<>>)
  /\ [][\A c \in Cycles :
         (pc[c] = "cache" /\ Called(c, {"cacheAlerts:failed"})') =>
           /\ pc'[c] = "done" => badge' = DegradedBadge
           /\ pc'[c] = "rejected" => Called(c, {"setBadgeText:failed",
                                                "setBadgeBackgroundColor:failed",
                                                "setBadgeTextColor:failed"})'
           /\ badge'.text \in {"!", badge.text}
           /\ UNCHANGED <<store, created>>]_vars

\* the cache write of a cycle that fetched an active alert, with the badge
\* enabled, failed: the cycle has returned and the badge is '!'
C39_Witness ==
  \E c \in Cycles :
    /\ pc[c] = "done"
    /\ Called(c, {"getAlerts"})
    /\ Last(trace[c]) = "setBadgeTextColor"
    /\ Called(c, {"cacheAlerts:failed"})
    /\ enableBadge
    /\ badge = DegradedBadge
    /\ \A i \in Instances : getCachedAlerts(i) = Null

\* C38: when every setupAlarm invocation that was started has returned (none
\* is in flight, none has rejected), there is one poll alarm and its period is
\* the one derived from the pollInterval saved last, whatever the
\* interleaving of the invocations' storage reads and alarm calls was.
C38_AlarmFollowsLatest ==
  (/\ SetupsDone # {}
   /\ \A s \in Setups : setup[s].pc \in {"idle", "done"}) =>
     /\ Len(alarms) = 1
     /\ alarms[1].name = ALARM_NAME
     /\ RatEq(alarms[1].periodInMinutes, intervalMinutes(pollInterval))

\* the number of active alerts of l whose fingerprint is not in known
NewCount(l, known) ==
  Cardinality({k \in 1..Len(l) :
                 l[k].state = "active" /\ ~Includes(known, l[k].fingerprint)})

\* C40: an alert that comes after five or more new active alerts in the
\* fetch of a check that is not a cold start gets no individual notification
\* in that cycle, where the notifications created are five individual ones
\* and the batch summary with the count of all new alerts and its fingerprint
\* is stored with all the others of the fetch, and none in any later cycle in
\* whose fetch it is still present.
C40_BeyondCapNeverAnnounced ==
  \A c \in Cycles :
    /\ ~Announced(c, Capped)
    /\ (ticks = 0 /\ CheckCompleted(c)) =>
         /\ Len(created[c]) = IndividualCap + 1
         /\ created[c][IndividualCap + 1] =
              Batch(NewCount(alerts[c], knownFingerprints[c]))
         /\ \A k \in 1..IndividualCap :
              created[c][k].id # NOTIFICATION_ID_PREFIX \o "batch"
         /\ StoredExactly(instance[c], alerts[c])
    /\ (ticks > 0 /\ pc[c] = "notify") => Includes(knownFingerprints[c], Capped)

\* a later cycle has checked a fetch in which the alert beyond the cap is
\* still active, and has created no notification
C40_Witness ==
  \E c \in Cycles :
    /\ ticks > 0
    /\ CheckCompleted(c)
    /\ FetchedActive(c, Capped)
    /\ Len(alerts[c]) = MaxAlerts
    /\ created[c] = <<>>

====
